---- MODULE Spec2Model ----
(***************************************************************************)
(* Verification model of kasyap1234/delta-go.                              *)
(*                                                                         *)
(* Part I  (SpecExec): the order execution state machine of                *)
(*          go/pkg/delta/orders.go -- PlaceLimitOrderWithFallback,         *)
(*          WaitForOrderFill and waitForCancelConfirmation -- run against  *)
(*          a venue whose limit order changes state between status polls.  *)
(* Part II (SpecRisk): the risk manager of go/pkg/risk/manager.go --       *)
(*          UpdateBalance, CanTrade, ResetCircuitBreaker -- on a clock     *)
(*          that counts ticks of 8 hours.                                  *)
(***************************************************************************)
EXTENDS Integers, Sequences, FiniteSets, TLC

(***************************************************************************)
(* Bounds of the model.                                                    *)
(***************************************************************************)
\* largest order size (contracts) a caller requests
MaxSize == 2
\* most status polls WaitForOrderFill gets in before its deadline passes
MaxFillPolls == 4
\* most status polls waitForCancelConfirmation gets in before its 2 s pass
MaxCancelPolls == 2

(***************************************************************************)
(* Program constants.                                                      *)
(***************************************************************************)
\* WaitForOrderFill: consecutive failed status lookups tolerated
maxRetries == 3

(***************************************************************************)
(* Part I -- order execution.                                              *)
(***************************************************************************)
VARIABLES
    pc,                \* position of PlaceLimitOrderWithFallback
    req,               \* the caller's OrderRequest (size and bracket fields)
    placeErr,          \* why PlaceAggressiveLimitOrder failed, "" if it did not
    vState,            \* venue: state of the limit order, "none" before it exists
    vUnfilled,         \* venue: unfilled_size of the limit order
    consecutiveErrors, \* WaitForOrderFill: consecutiveErrors
    lastOrder,         \* WaitForOrderFill: lastOrder
    fillPolls,         \* status polls made by WaitForOrderFill's loop
    cancelPolls,       \* status polls made by waitForCancelConfirmation's loop
    waitErr,           \* the error WaitForOrderFill returned, "" for nil
    markets,           \* market OrderRequests handed to PlaceOrder, in order
    result,            \* (order, err) returned by PlaceLimitOrderWithFallback
    cancelRequested,   \* CancelOrder was called for the limit order
    sawRejected,       \* a fill poll returned the order in state "rejected"
    lastObs,           \* what the last status poll after the cancel returned
    confirmDone,       \* waitForCancelConfirmation has returned
    failedLookups      \* history: failed status lookups in a row in the fill loop

execVars == <<pc, req, placeErr, vState, vUnfilled, consecutiveErrors, lastOrder,
              fillPolls, cancelPolls, waitErr, markets, result, cancelRequested,
              sawRejected, lastObs, confirmDone, failedLookups>>

\* state of the risk manager (Part II)
VARIABLES
    now,                 \* time.Now(), in ticks of 8 hours since a UTC midnight
    peakBalance,         \* RiskManager.peakBalance
    currentBalance,      \* RiskManager.currentBalance
    currentDrawdown,     \* RiskManager.currentDrawdown, a percentage num/den
    dailyStartBalance,   \* RiskManager.dailyStartBalance
    dailyPnL,            \* RiskManager.dailyPnL, a percentage num/den
    currentDay,          \* RiskManager.currentDay
    isCircuitBroken,     \* RiskManager.isCircuitBroken
    circuitBrokenAt,     \* RiskManager.circuitBrokenAt
    isDailyLimitHit,     \* RiskManager.isDailyLimitHit
    dailyLimitResetTime, \* RiskManager.dailyLimitResetTime
    canTrade,            \* the CanTrade call just made, if the last step was one
    lastLossAt           \* when a balance update last left dailyPnL at or below the limit

riskVars == <<now, peakBalance, currentBalance, currentDrawdown, dailyStartBalance,
              dailyPnL, currentDay, isCircuitBroken, circuitBrokenAt, isDailyLimitHit,
              dailyLimitResetTime, canTrade, lastLossAt>>

\* state of the stream client and of the runtime's start and stop (Part III)
VARIABLES
    conn,            \* WebSocketClient.conn: 0 for nil, else the number of the dial
    dials,           \* connections dialled so far
    isConnected,     \* WebSocketClient.isConnected
    reconnecting,    \* WebSocketClient.reconnecting
    started,         \* WebSocketClient.started
    subscriptions,   \* WebSocketClient.subscriptions
    stopChanCloses,  \* how often close(ws.stopChan) has run; a second run panics
    closeOnce,       \* WebSocketClient.closeOnce has run its function
    closedConns,     \* connections on which conn.Close() was called
    dropped,         \* connections the network or the venue has cut
    sent,            \* subscribe frames written, per connection and subscription
    startPc,         \* position of TradingBot.Start
    startIdx,        \* which of Start's two Subscribe calls is in progress
    readerPc,        \* position of the readMessages goroutine
    readerConn,      \* readMessages: the conn it is reading from
    replaySubs,      \* Connect called by reconnect: subs still to be re-sent
    reconnectLoops,  \* history: reconnect loops entered and not yet left
    heartbeatPc,     \* position of the heartbeat goroutine
    closerPc,        \* position of each direct caller of WebSocketClient.Close
    botStopCloses,   \* how often close(bot.stopChan) has run; a second run panics
    stopOnce,        \* TradingBot.stopOnce: "no", "running" or "done"
    stopperPc,       \* position of each caller of TradingBot.Stop
    isRunning,       \* TradingBot.isRunning
    mainLoopPc,      \* position of the mainLoop goroutine
    regimeLoopPc,    \* position of the regimeUpdateLoop goroutine
    limiterStopped   \* Client.Close has stopped the rate-limit ticker

streamVars == <<conn, dials, isConnected, reconnecting, started, subscriptions,
                stopChanCloses, closeOnce, closedConns, dropped, sent, startPc,
                startIdx, readerPc, readerConn, replaySubs, reconnectLoops,
                heartbeatPc, closerPc, botStopCloses, stopOnce, stopperPc, isRunning,
                mainLoopPc, regimeLoopPc, limiterStopped>>

\* state of the venue client's rate limiter and of one traced request (Part IV)
VARIABLES
    clock,       \* time in halves of the ticker interval since NewClient
    limiterC,    \* Client.limiter.C, a channel of capacity 1, holds a tick
    issued,      \* history: the times at which a tick was received from limiter.C
    callerPc,    \* position of each caller of doRequest whose request is not traced
    reqPc,       \* position of the traced doRequest call
    attempt,     \* doRequest: attempt
    tries,       \* history: what each attempt of the traced request met
    reqResult    \* what the traced doRequest call returned, "" before it has

clientVars == <<clock, limiterC, issued, callerPc, reqPc, attempt, tries, reqResult>>

\* state of one call of executeTradeForSymbol (Part V)
VARIABLES
    tradePc,     \* position of executeTradeForSymbol
    signal,      \* its arguments: balance, signal price and stop, regime, product
    size,        \* what CalculatePositionSize returned
    tradeOrder,  \* the Size of the OrderRequest handed to the venue client, 0 if none
    signalSide,  \* Signal.Side
    venueSize,   \* Position.Size the venue holds for the product, negative if short
    cycles       \* how many trading cycles have reached executeTradeForSymbol

sizingVars == <<tradePc, signal, size, tradeOrder, signalSide, venueSize, cycles>>

\* state of the backtest engine (Part VI); times are minutes since the epoch
VARIABLES
    processed,      \* how many timestamps simulate has processed
    prevTimestamp,  \* Engine.prevTimestamp
    positions,      \* Engine.positions
    pendingOrders,  \* Engine.pendingOrders
    fundingRates,   \* Engine.fundingRates
    lastBar,        \* per symbol, the latest candle of Engine.candles replayed
    lastSignal,     \* per symbol, what the strategy answered on that candle
    lastFill,       \* per symbol, the latest call of processSignalAtPrice
    fundingRuns,    \* how many times processFunding has run
    fundingPaid     \* per symbol, the payment of the latest timestamp

backtestVars == <<processed, prevTimestamp, positions, pendingOrders, fundingRates,
                  lastBar, lastSignal, lastFill, fundingRuns, fundingPaid>>

\* the books of the backtest engine (Part VII); money is in units of 10^-5
\* dollar, prices are in cents
VARIABLES
    equity,         \* Engine.equity
    usedMargin,     \* Engine.usedMargin
    book,           \* Engine.positions with everything a Position carries
    trades,         \* len(Engine.trades)
    lastTrade,      \* the Trade appended last
    lastOpen,       \* the books as openPositionAtPrice found them last
    peakEquity,     \* Engine.peakEquity
    lastPoint,      \* the EquityPoint appended last to Engine.equityCurve
    bookOps         \* how many operations have run

accountVars == <<equity, usedMargin, book, trades, lastTrade, lastOpen, peakEquity,
                 lastPoint, bookOps>>

\* the funding arbitrage strategy (Part VIII); funding is in per cent a year,
\* time in hours
VARIABLES
    faPosition,   \* FundingArbitrageStrategy.positions[symbol]
    faNow,        \* time.Now()
    faSignal,     \* what Analyze returned last, and on what
    faCalls       \* how many calls the strategy has had

fundingArbVars == <<faPosition, faNow, faSignal, faCalls>>

\* the structural selector with its grid trader (Part IX); volatility and
\* funding are in per cent, prices in dollars
VARIABLES
    gridCfg,      \* GridTradingStrategy.cfg
    gridActive,   \* GridTradingStrategy.IsActive
    gridCenter,   \* GridTradingStrategy.centerPrice
    gridLevels,   \* the first and the last of GridTradingStrategy.levels
    features,     \* the MarketFeatures of the last evaluation
    gridSignal,   \* what the grid's Analyze answered in the last evaluation
    selected,     \* what SelectBest returned last
    evaluated,    \* which of the two the last evaluation called
    selCalls      \* how many evaluations there have been

selectorVars == <<gridCfg, gridActive, gridCenter, gridLevels, features,
                  gridSignal, selected, evaluated, selCalls>>

\* callers that use the stream client directly (Part X)
VARIABLES
    subPc,        \* position of the caller of Subscribe
    subArg,       \* Subscribe: the subscription it was called with
    subCalls,     \* Subscribe calls made so far
    connectPc,    \* position of the caller of Connect
    connectSubs,  \* Connect: its copy of the subscriptions still to be sent
    queued        \* history: subscriptions stored while isConnected was false

directVars == <<subPc, subArg, subCalls, connectPc, connectSubs, queued>>

\* the runtime's candle history (Part XI)
VARIABLES
    candles,      \* TradingBot.candles
    candleIn,     \* the candle of the last update
    candleOps     \* candle updates handled so far

candleVars == <<candles, candleIn, candleOps>>

\* the pricing of an aggressive limit order (Part XIII); prices are in units
\* of 10^-8 dollar
VARIABLES
    bba,          \* what GetBestBidAsk returned
    tickSize,     \* Product.TickSize
    aggSide,      \* OrderRequest.Side
    aggLimit,     \* limitPrice before it is rounded
    aggPrice,     \* OrderRequest.LimitPrice
    aggErr        \* the error PlaceAggressiveLimitOrder returned before placing

priceVars == <<bba, tickSize, aggSide, aggLimit, aggPrice, aggErr>>

\* the trading loop around one order execution (Part XIV)
VARIABLES
    loopPc,       \* where mainLoop is: "select", "executing" or "returned"
    loopCycles,   \* calls of tradingCycle so far
    recorded      \* calls of RiskManager.RecordTrade so far

loopVars == <<loopPc, loopCycles, recorded>>

\* the risk manager's lock and the calls in progress on it (Part XV)
VARIABLES
    rmu,          \* RiskManager.mu: the writer holding it and the readers
    callPc,       \* where each caller is in CanTrade or UpdateBalance
    ubLocal,      \* the locals of the UpdateBalance call in progress
    ubSeq,        \* history: calls of UpdateBalance so far
    written,      \* history: which call wrote each latch flag and each clock
    obs           \* what each caller's last CanTrade call read

lockVars == <<rmu, callPc, ubLocal, ubSeq, written, obs>>

\* the trading cycle in front of the risk manager (Part XVI)
VARIABLES
    cyclePc,      \* where tradingCycle is: "ticker", "signal" or "trade"
    cycleNo,      \* calls of tradingCycle so far
    lastEntry     \* the entry order submitted last, and the latches at that time

cycleVars == <<cyclePc, cycleNo, lastEntry>>

\* the transmissions of concurrent doRequest calls (Part XVII)
VARIABLES
    sendAttempt,  \* doRequest: attempt, of each caller
    wake,         \* when the time.Sleep of each caller's retry loop ends
    resent        \* history: who re-sent a request and when

sendVars == <<sendAttempt, wake, resent>>

vars == <<execVars, riskVars, streamVars, clientVars, sizingVars,
    backtestVars, accountVars, fundingArbVars, selectorVars, directVars,
    candleVars, priceVars, loopVars, lockVars, cycleVars, sendVars>>

\* what the actions of one part leave alone
otherThanExec == <<riskVars, streamVars, clientVars, sizingVars,
    backtestVars, accountVars, fundingArbVars, selectorVars, directVars,
    candleVars, priceVars, loopVars, lockVars, cycleVars, sendVars>>
otherThanRisk == <<execVars, streamVars, clientVars, sizingVars,
    backtestVars, accountVars, fundingArbVars, selectorVars, directVars,
    candleVars, priceVars, loopVars, lockVars, cycleVars, sendVars>>
otherThanStream == <<execVars, riskVars, clientVars, sizingVars,
    backtestVars, accountVars, fundingArbVars, selectorVars, directVars,
    candleVars, priceVars, loopVars, lockVars, cycleVars, sendVars>>
otherThanClient == <<execVars, riskVars, streamVars, sizingVars,
    backtestVars, accountVars, fundingArbVars, selectorVars, directVars,
    candleVars, priceVars, loopVars, lockVars, cycleVars, sendVars>>
otherThanSizing == <<execVars, riskVars, streamVars, clientVars,
    backtestVars, accountVars, fundingArbVars, selectorVars, directVars,
    candleVars, priceVars, loopVars, lockVars, cycleVars, sendVars>>
otherThanBacktest == <<execVars, riskVars, streamVars, clientVars,
    sizingVars, accountVars, fundingArbVars, selectorVars, directVars,
    candleVars, priceVars, loopVars, lockVars, cycleVars, sendVars>>
otherThanAccount == <<execVars, riskVars, streamVars, clientVars, sizingVars,
    backtestVars, fundingArbVars, selectorVars, directVars, candleVars,
    priceVars, loopVars, lockVars, cycleVars, sendVars>>
otherThanFundingArb == <<execVars, riskVars, streamVars, clientVars,
    sizingVars, backtestVars, accountVars, selectorVars, directVars,
    candleVars, priceVars, loopVars, lockVars, cycleVars, sendVars>>
otherThanSelector == <<execVars, riskVars, streamVars, clientVars,
    sizingVars, backtestVars, accountVars, fundingArbVars, directVars,
    candleVars, priceVars, loopVars, lockVars, cycleVars, sendVars>>
otherThanDirect == <<execVars, riskVars, streamVars, clientVars, sizingVars,
    backtestVars, accountVars, fundingArbVars, selectorVars, candleVars,
    priceVars, loopVars, lockVars, cycleVars, sendVars>>
\* what the trading loop and the execution it drives leave alone
otherThanExecAndLoop == <<riskVars, streamVars, clientVars, sizingVars,
    backtestVars, accountVars, fundingArbVars, selectorVars, directVars,
    candleVars, priceVars, lockVars, cycleVars, sendVars>>
\* what the calls on the risk manager's lock leave alone
otherThanRiskAndLock == <<execVars, streamVars, clientVars, sizingVars,
    backtestVars, accountVars, fundingArbVars, selectorVars, directVars,
    candleVars, priceVars, loopVars, cycleVars, sendVars>>
\* what the trading cycle's calls of the risk manager leave alone
otherThanRiskAndCycle == <<execVars, streamVars, clientVars, sizingVars,
    backtestVars, accountVars, fundingArbVars, selectorVars, directVars,
    candleVars, priceVars, loopVars, lockVars, sendVars>>
\* what the transmissions of the client leave alone
otherThanClientAndSends == <<execVars, riskVars, streamVars, sizingVars,
    backtestVars, accountVars, fundingArbVars, selectorVars, directVars,
    candleVars, priceVars, loopVars, lockVars, cycleVars>>
\* what the direct callers of the stream client leave alone
otherThanStreamAndDirect == <<execVars, riskVars, clientVars, sizingVars,
    backtestVars, accountVars, fundingArbVars, selectorVars, candleVars,
    priceVars, loopVars, lockVars, cycleVars, sendVars>>
otherThanCandles == <<execVars, riskVars, streamVars, clientVars, sizingVars,
    backtestVars, accountVars, fundingArbVars, selectorVars, directVars,
    priceVars, loopVars, lockVars, cycleVars, sendVars>>
otherThanPrice == <<execVars, riskVars, streamVars, clientVars, sizingVars,
    backtestVars, accountVars, fundingArbVars, selectorVars, directVars,
    candleVars, loopVars, lockVars, cycleVars, sendVars>>
otherThanLoop == <<execVars, riskVars, streamVars, clientVars, sizingVars,
    backtestVars, accountVars, fundingArbVars, selectorVars, directVars,
    candleVars, priceVars, lockVars, cycleVars, sendVars>>
otherThanLock == <<execVars, riskVars, streamVars, clientVars, sizingVars,
    backtestVars, accountVars, fundingArbVars, selectorVars, directVars,
    candleVars, priceVars, loopVars, cycleVars, sendVars>>
otherThanCycle == <<execVars, riskVars, streamVars, clientVars, sizingVars,
    backtestVars, accountVars, fundingArbVars, selectorVars, directVars,
    candleVars, priceVars, loopVars, lockVars, sendVars>>
otherThanSends == <<execVars, riskVars, streamVars, clientVars, sizingVars,
    backtestVars, accountVars, fundingArbVars, selectorVars, directVars,
    candleVars, priceVars, loopVars, lockVars, cycleVars>>

\* a nil *Order
NoOrder == [ID |-> 0, State |-> "", Size |-> 0, UnfilledSize |-> 0]

\* bracket fields of an OrderRequest: SL price, SL limit, TP price, TP limit
NoBracket == [SL |-> "", SLLimit |-> "", TP |-> "", TPLimit |-> ""]

Brackets ==
    { NoBracket,
      [SL |-> "95.00", SLLimit |-> "",      TP |-> "110.00", TPLimit |-> ""],
      [SL |-> "95.00", SLLimit |-> "94.50", TP |-> "",       TPLimit |-> ""],
      [SL |-> "",      SLLimit |-> "",      TP |-> "110.00", TPLimit |-> "110.50"] }

\* the requests of the callers: an entry of executeTradeForSymbol with or
\* without bracket prices, and the reduce-only request of ClosePosition
\* (positions.go lines 45-63)
Requests ==
    { [Size |-> s, Bracket |-> b, ReduceOnly |-> FALSE] : s \in 1..MaxSize, b \in Brackets }
    \cup { [Size |-> s, Bracket |-> NoBracket, ReduceOnly |-> TRUE] : s \in 1..MaxSize }

\* order states the venue reports; "closed" stands for any state the client
\* does not know
ActiveStates == {"pending", "open", "partially_filled"}

\* the limit order as GetOrderByID returns it now
VenueOrder == [ID |-> 1, State |-> vState, Size |-> req.Size, UnfilledSize |-> vUnfilled]

\* outcomes of one GetOrderByID call: a transport/parse error or the order
StatusReplies == { [err |-> TRUE, order |-> NoOrder], [err |-> FALSE, order |-> VenueOrder] }

\* PlaceOrder(marketReq): the request reaches the venue; the call returns the
\* new order or an error
PlaceMarket(marketReq, ok) ==
    /\ markets' = Append(markets, marketReq)
    /\ result' = IF ok THEN [order |-> [ID |-> 2, State |-> "open", Size |-> marketReq.Size,
                                        UnfilledSize |-> marketReq.Size],
                             err |-> ""]
                       ELSE [order |-> NoOrder, err |-> "place order failed"]
    /\ pc' = "done"

Return(order, err) ==
    /\ result' = [order |-> order, err |-> err]
    /\ markets' = markets
    /\ pc' = "done"

ExecInit ==
    /\ pc = "start"
    /\ req \in Requests
    /\ placeErr = ""
    /\ vState = "none"
    /\ vUnfilled = 0
    /\ consecutiveErrors = 0
    /\ failedLookups = 0
    /\ lastOrder = NoOrder
    /\ fillPolls = 0
    /\ cancelPolls = 0
    /\ waitErr = ""
    /\ markets = <<>>
    /\ result = [order |-> NoOrder, err |-> ""]
    /\ cancelRequested = FALSE
    /\ sawRejected = FALSE
    /\ lastObs = "none"
    /\ confirmDone = FALSE

\* PlaceLimitOrderWithFallback, lines 565-589: the aggressive limit order is
\* placed; when that fails for any reason the full size goes out as a market
\* order with the original bracket fields
PlaceLimit ==
    /\ pc = "start"
    /\ \/ /\ \E s \in {"pending", "open"} : vState' = s
          /\ vUnfilled' = req.Size
          /\ pc' = "wait"
          /\ UNCHANGED <<placeErr, markets, result>>
       \/ /\ \E e \in {"orderbook", "product", "venue rejected", "transport"} : placeErr' = e
          /\ \E ok \in BOOLEAN :
                PlaceMarket([Size |-> req.Size, Bracket |-> req.Bracket,
                             ReduceOnly |-> FALSE], ok)
          /\ UNCHANGED <<vState, vUnfilled>>
    /\ UNCHANGED <<req, consecutiveErrors, failedLookups, lastOrder, fillPolls, cancelPolls,
                   waitErr,
                   cancelRequested, sawRejected, lastObs, confirmDone>>
    /\ UNCHANGED otherThanExec

\* the venue works on the resting limit order between two calls of the client
VenueStep ==
    /\ pc \in {"wait", "cancel", "confirm"}
    /\ vState \in ActiveStates
    /\ \/ /\ vState = "pending"
          /\ \E s \in {"open", "rejected", "closed"} : vState' = s
          /\ UNCHANGED vUnfilled
       \/ \E f \in 1..vUnfilled :
             /\ vUnfilled' = vUnfilled - f
             /\ IF f = vUnfilled
                   THEN vState' = "filled"
                   ELSE \E s \in {"open", "partially_filled"} : vState' = s
       \/ /\ vState' = "cancelled"
          /\ UNCHANGED vUnfilled
    /\ UNCHANGED <<pc, req, placeErr, consecutiveErrors, failedLookups, lastOrder, fillPolls,
                   cancelPolls,
                   waitErr, markets, result, cancelRequested, sawRejected, lastObs,
                   confirmDone>>
    /\ UNCHANGED otherThanExec

\* hasBracket of PlaceLimitOrderWithFallback, line 567
hasBracket == req.Bracket.SL # "" \/ req.Bracket.TP # ""

\* AfterWait as the earlier revision of the function had it: on a polling
\* error the market order goes out without waiting for the cancel to be
\* confirmed
AfterWait_NoConfirm(filledOrder, err) ==
    IF err = "OrderRejected"
    THEN /\ Return(NoOrder, err)
         /\ waitErr' = err
    ELSE IF err # ""
    THEN /\ waitErr' = err
         /\ \E ok \in BOOLEAN :
               PlaceMarket([Size |-> req.Size, Bracket |-> req.Bracket,
                             ReduceOnly |-> FALSE], ok)
    ELSE IF filledOrder # NoOrder
    THEN /\ Return(filledOrder, "")
         /\ waitErr' = ""
    ELSE /\ waitErr' = ""
         /\ pc' = "cancel"
         /\ UNCHANGED <<markets, result>>

\* PlaceLimitOrderWithFallback, lines 592-629: what the caller does with the
\* (order, err) WaitForOrderFill returned
AfterWait(filledOrder, err) ==
    IF err = "OrderRejected"
    THEN /\ Return(NoOrder, err)
         /\ waitErr' = err
    ELSE IF err # ""
    THEN /\ waitErr' = err
         /\ pc' = "cancel"
         /\ UNCHANGED <<markets, result>>
    ELSE IF filledOrder # NoOrder
    THEN /\ Return(filledOrder, "")
         /\ waitErr' = ""
    ELSE /\ waitErr' = ""
         /\ pc' = "cancel"
         /\ UNCHANGED <<markets, result>>

\* WaitForOrderFill, lines 503-535: one iteration of the polling loop, entered
\* while the deadline has not passed
\* the same loop without line 517's reset of consecutiveErrors
WaitPoll_NoReset ==
    /\ pc = "wait"
    /\ fillPolls < MaxFillPolls
    /\ fillPolls' = fillPolls + 1
    /\ \E r \in StatusReplies :
          IF r.err
          THEN /\ consecutiveErrors' = consecutiveErrors + 1
               /\ failedLookups' = failedLookups + 1
               /\ UNCHANGED <<lastOrder, sawRejected>>
               /\ IF consecutiveErrors + 1 >= maxRetries
                  THEN AfterWait(NoOrder, "failed to get order status")
                  ELSE UNCHANGED <<pc, waitErr, markets, result>>
          ELSE /\ consecutiveErrors' = consecutiveErrors
               /\ failedLookups' = 0
               /\ lastOrder' = r.order
               /\ sawRejected' = (sawRejected \/ r.order.State = "rejected")
               /\ IF r.order.State = "filled"
                  THEN AfterWait(r.order, "")
                  ELSE IF r.order.State = "cancelled"
                  THEN AfterWait(NoOrder, "order was cancelled")
                  ELSE IF r.order.State = "rejected"
                  THEN AfterWait(NoOrder, "OrderRejected")
                  ELSE IF r.order.State \notin ActiveStates
                  THEN AfterWait(NoOrder, "unexpected state")
                  ELSE UNCHANGED <<pc, waitErr, markets, result>>
    /\ UNCHANGED <<req, placeErr, vState, vUnfilled, cancelPolls, cancelRequested,
                   lastObs, confirmDone>>
    /\ UNCHANGED otherThanExec

WaitPoll ==
    /\ pc = "wait"
    /\ fillPolls < MaxFillPolls
    /\ fillPolls' = fillPolls + 1
    /\ \E r \in StatusReplies :
          IF r.err
          THEN /\ consecutiveErrors' = consecutiveErrors + 1
               /\ failedLookups' = failedLookups + 1
               /\ UNCHANGED <<lastOrder, sawRejected>>
               /\ IF consecutiveErrors + 1 >= maxRetries
                  THEN AfterWait(NoOrder, "failed to get order status")
                  ELSE UNCHANGED <<pc, waitErr, markets, result>>
          ELSE /\ consecutiveErrors' = 0
               /\ failedLookups' = 0
               /\ lastOrder' = r.order
               /\ sawRejected' = (sawRejected \/ r.order.State = "rejected")
               /\ IF r.order.State = "filled"
                  THEN AfterWait(r.order, "")
                  ELSE IF r.order.State = "cancelled"
                  THEN AfterWait(NoOrder, "order was cancelled")
                  ELSE IF r.order.State = "rejected"
                  THEN AfterWait(NoOrder, "OrderRejected")
                  ELSE IF r.order.State \notin ActiveStates
                  THEN AfterWait(NoOrder, "unexpected state")
                  ELSE UNCHANGED <<pc, waitErr, markets, result>>
    /\ UNCHANGED <<req, placeErr, vState, vUnfilled, cancelPolls, cancelRequested,
                   lastObs, confirmDone>>
    /\ UNCHANGED otherThanExec

\* WaitForOrderFill, lines 537-550: the deadline has passed; one last status
\* lookup, then the filled order or (nil, nil)
WaitFinal ==
    /\ pc = "wait"
    /\ \E r \in StatusReplies :
          IF ~r.err /\ r.order.State = "filled"
          THEN /\ lastOrder' = lastOrder
               /\ sawRejected' = sawRejected
               /\ AfterWait(r.order, "")
          ELSE /\ lastOrder' = IF ~r.err THEN r.order ELSE lastOrder
               /\ sawRejected' = (sawRejected \/ (~r.err /\ r.order.State = "rejected"))
               /\ IF lastOrder' # NoOrder /\ lastOrder'.State = "filled"
                  THEN AfterWait(lastOrder', "")
                  ELSE AfterWait(NoOrder, "")
    /\ UNCHANGED <<req, placeErr, vState, vUnfilled, consecutiveErrors, failedLookups, fillPolls,
                   cancelPolls, cancelRequested, lastObs, confirmDone>>
    /\ UNCHANGED otherThanExec

\* waitForCancelConfirmation, line 673: the cancel request is sent and its
\* error is discarded; the venue cancels the order, if at all, in a VenueStep
CancelLimit ==
    /\ pc = "cancel"
    /\ cancelRequested' = TRUE
    /\ pc' = "confirm"
    /\ UNCHANGED <<req, placeErr, vState, vUnfilled, consecutiveErrors, failedLookups, lastOrder,
                   fillPolls, cancelPolls, waitErr, markets, result, sawRejected,
                   lastObs, confirmDone>>
    /\ UNCHANGED otherThanExec

\* a (*Order, bool) pair as waitForCancelConfirmation returns it
Confirmed(order, safeToReplace) == [order |-> order, safeToReplace |-> safeToReplace]

\* PlaceLimitOrderWithFallback, lines 610-620: the market request built after
\* a polling error
MarketReqAfterError(finalOrder) ==
    [Size |-> req.Size, Bracket |-> req.Bracket, ReduceOnly |-> FALSE]

\* PlaceLimitOrderWithFallback, lines 637-665: the market request built after
\* a timeout; Size <= 0 means that no order is placed
MarketReqAfterTimeout(finalOrder) ==
    LET filledQty == IF finalOrder # NoOrder
                     THEN finalOrder.Size - finalOrder.UnfilledSize ELSE 0
        remainingSize == IF finalOrder # NoOrder THEN finalOrder.UnfilledSize ELSE req.Size
    IN  [Size |-> remainingSize,
         Bracket |-> IF filledQty = 0 /\ hasBracket THEN req.Bracket ELSE NoBracket,
         ReduceOnly |-> FALSE]

\* AfterConfirm without the check for a fill that won the race
AfterConfirm_NoFilledCheck(c) ==
    IF ~c.safeToReplace
    THEN Return(NoOrder, IF waitErr # "" THEN "cannot safely replace order"
                                         ELSE "cannot safely replace order after timeout")
    ELSE IF waitErr # ""
    THEN \E ok \in BOOLEAN : PlaceMarket(MarketReqAfterError(c.order), ok)
    ELSE IF MarketReqAfterTimeout(c.order).Size <= 0
    THEN Return(c.order, "")
    ELSE \E ok \in BOOLEAN : PlaceMarket(MarketReqAfterTimeout(c.order), ok)

\* PlaceLimitOrderWithFallback, lines 602-622 and 629-667: what the caller
\* does with the pair waitForCancelConfirmation returned, on the polling-error
\* path (waitErr # "") and on the timeout path
AfterConfirm(c) ==
    IF c.order # NoOrder /\ c.order.State = "filled"
    THEN Return(c.order, "")
    ELSE IF ~c.safeToReplace
    THEN Return(NoOrder, IF waitErr # "" THEN "cannot safely replace order"
                                         ELSE "cannot safely replace order after timeout")
    ELSE IF waitErr # ""
    THEN \E ok \in BOOLEAN : PlaceMarket(MarketReqAfterError(c.order), ok)
    ELSE IF MarketReqAfterTimeout(c.order).Size <= 0
    THEN Return(c.order, "")
    ELSE \E ok \in BOOLEAN : PlaceMarket(MarketReqAfterTimeout(c.order), ok)

\* waitForCancelConfirmation, lines 679-695: the verdict of one iteration of
\* the confirmation loop on a status reply; "continue" keeps polling
ConfirmLoopVerdict(r) ==
    IF r.err THEN [continue |-> TRUE, ret |-> Confirmed(NoOrder, FALSE)]
    ELSE IF r.order.State = "filled" THEN [continue |-> FALSE, ret |-> Confirmed(r.order, FALSE)]
    ELSE IF r.order.State = "cancelled" THEN [continue |-> FALSE, ret |-> Confirmed(r.order, TRUE)]
    ELSE [continue |-> TRUE, ret |-> Confirmed(NoOrder, FALSE)]

\* ConfirmFinalVerdict taking an order that is still active for replaceable
ConfirmFinalVerdict_ActiveIsSafe(r) ==
    IF r.err THEN Confirmed(NoOrder, FALSE)
    ELSE IF r.order.State = "filled" THEN Confirmed(r.order, FALSE)
    ELSE Confirmed(r.order, TRUE)

\* waitForCancelConfirmation, lines 697-711: the verdict of the final check
ConfirmFinalVerdict(r) ==
    IF r.err THEN Confirmed(NoOrder, FALSE)
    ELSE IF r.order.State = "filled" THEN Confirmed(r.order, FALSE)
    ELSE IF r.order.State = "cancelled" THEN Confirmed(r.order, TRUE)
    ELSE Confirmed(r.order, FALSE)

\* what a status reply shows of the order
Observed(r) == IF r.err THEN "unreadable" ELSE r.order.State

\* waitForCancelConfirmation, lines 679-695: one iteration of the loop that
\* polls for the outcome of the cancel, entered while the 2 s have not passed
ConfirmPoll ==
    /\ pc = "confirm"
    /\ cancelPolls < MaxCancelPolls
    /\ cancelPolls' = cancelPolls + 1
    /\ \E r \in StatusReplies :
          /\ lastObs' = Observed(r)
          /\ IF ConfirmLoopVerdict(r).continue
             THEN UNCHANGED <<pc, markets, result, confirmDone>>
             ELSE /\ confirmDone' = TRUE
                  /\ AfterConfirm(ConfirmLoopVerdict(r).ret)
    /\ UNCHANGED <<req, placeErr, vState, vUnfilled, consecutiveErrors, failedLookups, lastOrder,
                   fillPolls, waitErr, cancelRequested, sawRejected>>
    /\ UNCHANGED otherThanExec

\* waitForCancelConfirmation, lines 697-711: the 2 s have passed; one final
\* status lookup decides
ConfirmFinal ==
    /\ pc = "confirm"
    /\ \E r \in StatusReplies :
          /\ lastObs' = Observed(r)
          /\ confirmDone' = TRUE
          /\ AfterConfirm(ConfirmFinalVerdict(r))
    /\ UNCHANGED <<req, placeErr, vState, vUnfilled, consecutiveErrors, failedLookups, lastOrder,
                   fillPolls, cancelPolls, waitErr, cancelRequested, sawRejected>>
    /\ UNCHANGED otherThanExec

(***************************************************************************)
(* Part II -- risk manager.                                                *)
(***************************************************************************)

\* last tick of the modelled clock (a tick is 8 hours)
MaxTime == 8

\* 24 * time.Hour, in ticks of 8 hours
Day == 3
\* config.MaxDrawdownPct, default of MAX_DRAWDOWN_PCT
MaxDrawdownPct == 10
\* RiskManager.dailyLossLimit as NewRiskManager sets it
dailyLossLimit == -5

\* balances the wallet reports
Balances == {90, 94, 95, 100}

\* a percentage kept as an exact fraction, den > 0
Pct(num, den) == [num |-> num, den |-> den]
PctLeq(p, limit) == p.num <= limit * p.den
PctGeq(p, limit) == p.num >= limit * p.den

\* t.Truncate(24 * time.Hour): the UTC midnight at or before t
Truncate(t) == (t \div Day) * Day

\* no CanTrade call was the last step
NoCall == [called |-> FALSE, ok |-> FALSE, reason |-> "", latchAge |-> -1]

\* NewRiskManager, lines 40-46, at hour 0
RiskInit ==
    /\ now = 0
    /\ peakBalance = 0
    /\ currentBalance = 0
    /\ currentDrawdown = Pct(0, 1)
    /\ dailyStartBalance = 0
    /\ dailyPnL = Pct(0, 1)
    /\ currentDay = Truncate(0)
    /\ isCircuitBroken = FALSE
    /\ circuitBrokenAt = 0
    /\ isDailyLimitHit = FALSE
    /\ dailyLimitResetTime = 0
    /\ canTrade = NoCall
    /\ lastLossAt = -1

\* the clock advances by a tick
Tick ==
    /\ now < MaxTime
    /\ now' = now + 1
    /\ canTrade' = NoCall
    /\ UNCHANGED <<peakBalance, currentBalance, currentDrawdown, dailyStartBalance,
                   dailyPnL, currentDay, isCircuitBroken, circuitBrokenAt,
                   isDailyLimitHit, dailyLimitResetTime, lastLossAt>>
    /\ UNCHANGED otherThanRisk

\* DailyLimitResetTime without the day added
DailyLimitResetTime_Today(today) == today

\* UpdateBalance, line 79: when the daily-loss latch set today lifts
DailyLimitResetTime(today) == today + Day

\* UpdateBalance, lines 49-101
UpdateBalance(balance) ==
    LET today  == Truncate(now)
        newDay == today > currentDay
        start0 == IF newDay THEN balance ELSE dailyStartBalance
        pnl0   == IF newDay THEN Pct(0, 1) ELSE dailyPnL
        hit0   == IF newDay THEN FALSE ELSE isDailyLimitHit
        start1 == IF start0 = 0 THEN balance ELSE start0
        pnl1   == IF start1 > 0 THEN Pct((balance - start1) * 100, start1) ELSE pnl0
        latch  == PctLeq(pnl1, dailyLossLimit) /\ ~hit0
        peak1  == IF balance > peakBalance THEN balance ELSE peakBalance
        dd1    == IF peak1 > 0 THEN Pct((peak1 - balance) * 100, peak1) ELSE currentDrawdown
        trip   == PctGeq(dd1, MaxDrawdownPct) /\ ~isCircuitBroken
    IN  /\ currentDay' = IF newDay THEN today ELSE currentDay
        /\ dailyStartBalance' = start1
        /\ currentBalance' = balance
        /\ dailyPnL' = pnl1
        /\ isDailyLimitHit' = (hit0 \/ latch)
        /\ dailyLimitResetTime' = IF latch THEN DailyLimitResetTime(today)
                                            ELSE dailyLimitResetTime
        /\ peakBalance' = peak1
        /\ currentDrawdown' = dd1
        /\ isCircuitBroken' = (isCircuitBroken \/ trip)
        /\ circuitBrokenAt' = IF trip THEN now ELSE circuitBrokenAt
        /\ lastLossAt' = IF PctLeq(pnl1, dailyLossLimit) THEN now ELSE lastLossAt
        /\ canTrade' = NoCall
        /\ UNCHANGED now

\* CanTrade, lines 104-129: the (bool, string) it returns
CanTradeResult ==
    IF isDailyLimitHit
    THEN IF now > dailyLimitResetTime
         THEN [ok |-> TRUE, reason |-> ""]
         ELSE [ok |-> FALSE, reason |-> "daily loss limit hit"]
    ELSE IF isCircuitBroken
    THEN IF now - circuitBrokenAt > Day
         THEN [ok |-> TRUE, reason |-> ""]
         ELSE [ok |-> FALSE, reason |-> "circuit breaker active"]
    ELSE [ok |-> TRUE, reason |-> ""]

\* CanTrade, lines 104-129: a call; it reads the state under the read lock
\* and changes none of it
CanTrade ==
    /\ canTrade' = [called |-> TRUE, ok |-> CanTradeResult.ok,
                    reason |-> CanTradeResult.reason,
                    latchAge |-> IF isCircuitBroken THEN now - circuitBrokenAt ELSE -1]
    /\ UNCHANGED <<now, peakBalance, currentBalance, currentDrawdown, dailyStartBalance,
                   dailyPnL, currentDay, isCircuitBroken, circuitBrokenAt,
                   isDailyLimitHit, dailyLimitResetTime, lastLossAt>>
    /\ UNCHANGED otherThanRisk

\* ResetCircuitBreaker, lines 310-316
ResetCircuitBreaker ==
    /\ isCircuitBroken' = FALSE
    /\ peakBalance' = currentBalance
    /\ canTrade' = NoCall
    /\ UNCHANGED <<now, currentBalance, currentDrawdown, dailyStartBalance, dailyPnL,
                   currentDay, circuitBrokenAt, isDailyLimitHit, dailyLimitResetTime,
                   lastLossAt>>
    /\ UNCHANGED otherThanRisk

BalanceUpdate ==
    /\ \E balance \in Balances : UpdateBalance(balance)
    /\ UNCHANGED otherThanRisk

RiskNext ==
    \/ Tick
    \/ BalanceUpdate
    \/ CanTrade
    \/ ResetCircuitBreaker

(***************************************************************************)
(* Part III -- the stream client (websocket.go) and the runtime's Start    *)
(* and Stop.  A step is a critical section of ws.mu or one blocking call.  *)
(***************************************************************************)
MaxDials == 2
Conns == 1..MaxDials
Closers == {"k1"}
Stoppers == {"s1", "s2"}

\* SubscribeTicker and SubscribeCandles, lines 184-191: the (channel, symbols)
\* pairs Start subscribes to
TickerSub == [name |-> "v2/ticker", symbols |-> <<"BTCUSD">>]
CandleSub == [name |-> "candlestick_5m", symbols |-> <<"BTCUSD">>]
StartSubs == <<TickerSub, CandleSub>>

\* further pairs a caller may subscribe to: the same channel as TickerSub with
\* other symbol lists
TickerEth == [name |-> "v2/ticker", symbols |-> <<"ETHUSD">>]
TickerBoth == [name |-> "v2/ticker", symbols |-> <<"BTCUSD", "ETHUSD">>]
AllSubs == {TickerSub, CandleSub, TickerEth, TickerBoth}

\* equalStringSlice, lines 413-423
equalStringSlice(a, b) ==
    /\ Len(a) = Len(b)
    /\ \A i \in 1..Len(a) : a[i] = b[i]

\* the mutant of Stored that compares with the last stored subscription only
Stored_LastOnly(sub) ==
    /\ subscriptions # <<>>
    /\ subscriptions[Len(subscriptions)].name = sub.name
    /\ equalStringSlice(subscriptions[Len(subscriptions)].symbols, sub.symbols)

\* Subscribe, lines 167-172: an equal subscription is already stored
Stored(sub) ==
    \E i \in 1..Len(subscriptions) :
        /\ subscriptions[i].name = sub.name
        /\ equalStringSlice(subscriptions[i].symbols, sub.symbols)

\* sendSubscribe and sendJSON, lines 203-234: the frame goes to the conn read
\* under the lock; a nil conn or a conn closed by this client is an error
sendSubscribe(sub) ==
    IF conn = 0 \/ conn \in closedConns
    THEN sent
    ELSE [sent EXCEPT ![conn][sub] = @ + 1]

\* NewWebSocketClient (lines 65-72) and NewTradingBot: nothing connected,
\* nothing subscribed, no goroutine started
StreamInit ==
    /\ conn = 0
    /\ dials = 0
    /\ isConnected = FALSE
    /\ reconnecting = FALSE
    /\ started = FALSE
    /\ subscriptions = <<>>
    /\ stopChanCloses = 0
    /\ closeOnce = FALSE
    /\ closedConns = {}
    /\ dropped = {}
    /\ sent = [c \in Conns |-> [s \in AllSubs |-> 0]]
    /\ startPc = "connect"
    /\ startIdx = 1
    /\ readerPc = "off"
    /\ readerConn = 0
    /\ replaySubs = <<>>
    /\ reconnectLoops = 0
    /\ heartbeatPc = "off"
    /\ closerPc = [k \in Closers |-> "idle"]
    /\ botStopCloses = 0
    /\ stopOnce = "no"
    /\ stopperPc = [s \in Stoppers |-> "idle"]
    /\ isRunning = FALSE
    /\ mainLoopPc = "off"
    /\ regimeLoopPc = "off"
    /\ limiterStopped = FALSE

\* Connect, lines 136-148: the dial succeeded; the new conn is installed under
\* the lock and the old one, if any, is closed
Connect_Install ==
    /\ dials' = dials + 1
    /\ conn' = dials + 1
    /\ isConnected' = TRUE
    /\ started' = TRUE
    /\ closedConns' = IF conn # 0 THEN closedConns \cup {conn} ELSE closedConns

\* the network or the venue cuts the current connection
NetDrop ==
    /\ conn # 0
    /\ conn \notin dropped
    /\ conn \notin closedConns
    /\ dropped' = dropped \cup {conn}
    /\ UNCHANGED <<conn, dials, isConnected, reconnecting, started, subscriptions,
                   stopChanCloses, closeOnce, closedConns, sent, startPc, startIdx,
                   readerPc, readerConn, replaySubs, reconnectLoops, heartbeatPc,
                   closerPc, botStopCloses, stopOnce, stopperPc, isRunning,
                   mainLoopPc, regimeLoopPc, limiterStopped>>
    /\ UNCHANGED otherThanStream

\* Start, part_002 lines 441-443, with Connect (lines 104-162): the dial fails
\* and Start returns the error, or the conn is installed and, on the first
\* Connect, the two goroutines are started; subscriptions is still empty here,
\* so the resubscribe loop of lines 156-158 has nothing to send
StartConnect ==
    /\ startPc = "connect"
    /\ \E ok \in BOOLEAN :
          IF ok /\ dials < MaxDials
          THEN /\ Connect_Install
               /\ readerPc' = IF ~started THEN "select" ELSE readerPc
               /\ heartbeatPc' = IF ~started THEN "run" ELSE heartbeatPc
               /\ startPc' = "subscribe"
          ELSE /\ startPc' = "failed"
               /\ UNCHANGED <<conn, dials, isConnected, started, closedConns,
                              readerPc, heartbeatPc>>
    /\ UNCHANGED <<reconnecting, subscriptions, stopChanCloses, closeOnce, dropped,
                   sent, startIdx, readerConn, replaySubs, reconnectLoops, closerPc,
                   botStopCloses, stopOnce, stopperPc, isRunning, mainLoopPc,
                   regimeLoopPc, limiterStopped>>
    /\ UNCHANGED otherThanStream

\* where Start goes after its Subscribe call number startIdx has returned
StartAfterSubscribe ==
    IF startIdx < Len(StartSubs)
    THEN startIdx' = startIdx + 1 /\ startPc' = "subscribe"
    ELSE startIdx' = startIdx /\ startPc' = "spawn"

\* Subscribe, lines 166-175, called by Start (part_002 lines 451-455): the
\* critical section that stores the subscription and reads isConnected
StartSubscribe ==
    /\ startPc = "subscribe"
    /\ IF Stored(StartSubs[startIdx])
       THEN /\ UNCHANGED subscriptions
            /\ StartAfterSubscribe
       ELSE /\ subscriptions' = Append(subscriptions, StartSubs[startIdx])
            /\ IF isConnected
               THEN startPc' = "send" /\ startIdx' = startIdx
               ELSE StartAfterSubscribe
    /\ UNCHANGED <<conn, dials, isConnected, reconnecting, started, stopChanCloses,
                   closeOnce, closedConns, dropped, sent, readerPc, readerConn,
                   replaySubs, reconnectLoops, heartbeatPc, closerPc, botStopCloses,
                   stopOnce, stopperPc, isRunning, mainLoopPc, regimeLoopPc,
                   limiterStopped>>
    /\ UNCHANGED otherThanStream

\* Subscribe, lines 177-179: isConnected was true in the critical section, the
\* frame is sent outside the lock
StartSend ==
    /\ startPc = "send"
    /\ sent' = sendSubscribe(StartSubs[startIdx])
    /\ StartAfterSubscribe
    /\ UNCHANGED <<conn, dials, isConnected, reconnecting, started, subscriptions,
                   stopChanCloses, closeOnce, closedConns, dropped, readerPc,
                   readerConn, replaySubs, reconnectLoops, heartbeatPc, closerPc,
                   botStopCloses, stopOnce, stopperPc, isRunning, mainLoopPc,
                   regimeLoopPc, limiterStopped>>
    /\ UNCHANGED otherThanStream

\* Start, part_002 lines 458-466: isRunning is set and the two loops start
StartSpawn ==
    /\ startPc = "spawn"
    /\ isRunning' = TRUE
    /\ mainLoopPc' = "select"
    /\ regimeLoopPc' = "select"
    /\ startPc' = "running"
    /\ UNCHANGED <<conn, dials, isConnected, reconnecting, started, subscriptions,
                   stopChanCloses, closeOnce, closedConns, dropped, sent, startIdx,
                   readerPc, readerConn, replaySubs, reconnectLoops, heartbeatPc,
                   closerPc, botStopCloses, stopOnce, stopperPc, limiterStopped>>
    /\ UNCHANGED otherThanStream

\* readMessages, lines 239-249: the stop signal wins over the default case;
\* otherwise the conn is read under the lock, and a nil conn means sleep and retry
ReaderSelect ==
    /\ readerPc = "select"
    /\ IF stopChanCloses > 0
       THEN readerPc' = "exit" /\ UNCHANGED readerConn
       ELSE IF conn = 0
       THEN UNCHANGED <<readerPc, readerConn>>
       ELSE readerPc' = "read" /\ readerConn' = conn
    /\ UNCHANGED <<conn, dials, isConnected, reconnecting, started, subscriptions,
                   stopChanCloses, closeOnce, closedConns, dropped, sent, startPc,
                   startIdx, replaySubs, reconnectLoops, heartbeatPc, closerPc,
                   botStopCloses, stopOnce, stopperPc, isRunning, mainLoopPc,
                   regimeLoopPc, limiterStopped>>
    /\ UNCHANGED otherThanStream

\* readMessages, lines 251 and 261: a message arrives and is handled
ReaderMessage ==
    /\ readerPc = "read"
    /\ readerConn \notin dropped \cup closedConns
    /\ readerPc' = "select"
    /\ UNCHANGED <<conn, dials, isConnected, reconnecting, started, subscriptions,
                   stopChanCloses, closeOnce, closedConns, dropped, sent, startPc,
                   startIdx, readerConn, replaySubs, reconnectLoops, heartbeatPc,
                   closerPc, botStopCloses, stopOnce, stopperPc, isRunning,
                   mainLoopPc, regimeLoopPc, limiterStopped>>
    /\ UNCHANGED otherThanStream

\* reconnect's entry with line 346 left out
reconnect_Enter_NoFlag ==
    IF reconnecting
    THEN /\ readerPc' = "select"
         /\ UNCHANGED <<reconnecting, isConnected, reconnectLoops>>
    ELSE /\ reconnecting' = reconnecting
         /\ isConnected' = FALSE
         /\ reconnectLoops' = reconnectLoops + 1
         /\ readerPc' = "rc_select"

\* reconnect, lines 341-348: a caller that finds reconnecting set returns at
\* once; otherwise it sets the flag and enters the loop
reconnect_Enter ==
    IF reconnecting
    THEN /\ readerPc' = "select"
         /\ UNCHANGED <<reconnecting, isConnected, reconnectLoops>>
    ELSE /\ reconnecting' = TRUE
         /\ isConnected' = FALSE
         /\ reconnectLoops' = reconnectLoops + 1
         /\ readerPc' = "rc_select"

\* readMessages, lines 251-258: ReadMessage fails on a cut or closed conn and
\* reconnect is called
ReaderReadError ==
    /\ readerPc = "read"
    /\ readerConn \in dropped \cup closedConns
    /\ reconnect_Enter
    /\ UNCHANGED <<conn, dials, started, subscriptions, stopChanCloses, closeOnce,
                   closedConns, dropped, sent, startPc, startIdx, readerConn,
                   replaySubs, heartbeatPc, closerPc, botStopCloses, stopOnce,
                   stopperPc, isRunning, mainLoopPc, regimeLoopPc, limiterStopped>>
    /\ UNCHANGED otherThanStream

\* reconnect's loop without the stop case of lines 355-356
ReconnectSelect_NoStop ==
    /\ readerPc = "rc_select"
    /\ readerPc' = "rc_connect"
    /\ UNCHANGED <<conn, dials, isConnected, reconnecting, started, subscriptions,
                   stopChanCloses, closeOnce, closedConns, dropped, sent, startPc,
                   startIdx, readerConn, replaySubs, reconnectLoops, heartbeatPc,
                   closerPc, botStopCloses, stopOnce, stopperPc, isRunning,
                   mainLoopPc, regimeLoopPc, limiterStopped>>
    /\ UNCHANGED otherThanStream

\* reconnect, lines 353-359: the loop returns when the stop signal is closed
\* (reconnecting stays set), otherwise it sleeps for the backoff
ReconnectSelect ==
    /\ readerPc = "rc_select"
    /\ IF stopChanCloses > 0
       THEN readerPc' = "select" /\ reconnectLoops' = reconnectLoops - 1
       ELSE readerPc' = "rc_connect" /\ UNCHANGED reconnectLoops
    /\ UNCHANGED <<conn, dials, isConnected, reconnecting, started, subscriptions,
                   stopChanCloses, closeOnce, closedConns, dropped, sent, startPc,
                   startIdx, readerConn, replaySubs, heartbeatPc, closerPc,
                   botStopCloses, stopOnce, stopperPc, isRunning, mainLoopPc,
                   regimeLoopPc, limiterStopped>>
    /\ UNCHANGED otherThanStream

\* reconnect, lines 361-368, with Connect, lines 128-148: a failed dial goes
\* round the loop; a successful one installs the conn and copies the stored
\* subscriptions for the resubscribe loop
ReconnectConnect ==
    /\ readerPc = "rc_connect"
    /\ \E ok \in BOOLEAN :
          IF ok /\ dials < MaxDials
          THEN /\ Connect_Install
               /\ replaySubs' = subscriptions
               /\ readerPc' = "replay"
          ELSE /\ readerPc' = "rc_select"
               /\ UNCHANGED <<conn, dials, isConnected, started, closedConns,
                              replaySubs>>
    /\ UNCHANGED <<reconnecting, subscriptions, stopChanCloses, closeOnce, dropped,
                   sent, startPc, startIdx, readerConn, reconnectLoops, heartbeatPc,
                   closerPc, botStopCloses, stopOnce, stopperPc, isRunning,
                   mainLoopPc, regimeLoopPc, limiterStopped>>
    /\ UNCHANGED otherThanStream

\* Connect, lines 156-158: one iteration of the resubscribe loop
ReconnectReplay ==
    /\ readerPc = "replay"
    /\ replaySubs # <<>>
    /\ sent' = sendSubscribe(Head(replaySubs))
    /\ replaySubs' = Tail(replaySubs)
    /\ UNCHANGED <<conn, dials, isConnected, reconnecting, started, subscriptions,
                   stopChanCloses, closeOnce, closedConns, dropped, startPc, startIdx,
                   readerPc, readerConn, reconnectLoops, heartbeatPc, closerPc,
                   botStopCloses, stopOnce, stopperPc, isRunning, mainLoopPc,
                   regimeLoopPc, limiterStopped>>
    /\ UNCHANGED otherThanStream

\* reconnect, lines 370-375: Connect returned nil, the flag is cleared and
\* readMessages goes on
ReconnectDone ==
    /\ readerPc = "replay"
    /\ replaySubs = <<>>
    /\ reconnecting' = FALSE
    /\ reconnectLoops' = reconnectLoops - 1
    /\ readerPc' = "select"
    /\ UNCHANGED <<conn, dials, isConnected, started, subscriptions, stopChanCloses,
                   closeOnce, closedConns, dropped, sent, startPc, startIdx,
                   readerConn, replaySubs, heartbeatPc, closerPc, botStopCloses,
                   stopOnce, stopperPc, isRunning, mainLoopPc, regimeLoopPc,
                   limiterStopped>>
    /\ UNCHANGED otherThanStream

\* heartbeat, lines 318-335: the ticker case, a ping on the current conn
HeartbeatTick ==
    /\ heartbeatPc \in {"run", "ping"}
    /\ heartbeatPc' = IF heartbeatPc = "run" THEN "ping" ELSE "run"
    /\ UNCHANGED <<conn, dials, isConnected, reconnecting, started, subscriptions,
                   stopChanCloses, closeOnce, closedConns, dropped, sent, startPc,
                   startIdx, readerPc, readerConn, replaySubs, reconnectLoops,
                   closerPc, botStopCloses, stopOnce, stopperPc, isRunning,
                   mainLoopPc, regimeLoopPc, limiterStopped>>
    /\ UNCHANGED otherThanStream

\* heartbeat, lines 319-320: the stop case
HeartbeatExit ==
    /\ heartbeatPc = "run"
    /\ stopChanCloses > 0
    /\ heartbeatPc' = "exit"
    /\ UNCHANGED <<conn, dials, isConnected, reconnecting, started, subscriptions,
                   stopChanCloses, closeOnce, closedConns, dropped, sent, startPc,
                   startIdx, readerPc, readerConn, replaySubs, reconnectLoops,
                   closerPc, botStopCloses, stopOnce, stopperPc, isRunning,
                   mainLoopPc, regimeLoopPc, limiterStopped>>
    /\ UNCHANGED otherThanStream

\* mainLoop, part_002 lines 489-495: the ticker case runs tradingCycle, whose
\* effects are those of Parts I and II
MainLoopTick ==
    /\ mainLoopPc \in {"select", "cycle"}
    /\ mainLoopPc' = IF mainLoopPc = "select" THEN "cycle" ELSE "select"
    /\ UNCHANGED <<conn, dials, isConnected, reconnecting, started, subscriptions,
                   stopChanCloses, closeOnce, closedConns, dropped, sent, startPc,
                   startIdx, readerPc, readerConn, replaySubs, reconnectLoops,
                   heartbeatPc, closerPc, botStopCloses, stopOnce, stopperPc,
                   isRunning, regimeLoopPc, limiterStopped>>
    /\ UNCHANGED otherThanStream

\* mainLoop, part_002 lines 491-492: the stop case
MainLoopExit ==
    /\ mainLoopPc = "select"
    /\ botStopCloses > 0
    /\ mainLoopPc' = "exit"
    /\ UNCHANGED <<conn, dials, isConnected, reconnecting, started, subscriptions,
                   stopChanCloses, closeOnce, closedConns, dropped, sent, startPc,
                   startIdx, readerPc, readerConn, replaySubs, reconnectLoops,
                   heartbeatPc, closerPc, botStopCloses, stopOnce, stopperPc,
                   isRunning, regimeLoopPc, limiterStopped>>
    /\ UNCHANGED otherThanStream

\* regimeUpdateLoop, part_002 lines 784-793: the ticker case runs
\* updateMarketRegime
RegimeLoopTick ==
    /\ regimeLoopPc \in {"select", "update"}
    /\ regimeLoopPc' = IF regimeLoopPc = "select" THEN "update" ELSE "select"
    /\ UNCHANGED <<conn, dials, isConnected, reconnecting, started, subscriptions,
                   stopChanCloses, closeOnce, closedConns, dropped, sent, startPc,
                   startIdx, readerPc, readerConn, replaySubs, reconnectLoops,
                   heartbeatPc, closerPc, botStopCloses, stopOnce, stopperPc,
                   isRunning, mainLoopPc, limiterStopped>>
    /\ UNCHANGED otherThanStream

\* regimeUpdateLoop, part_002 lines 786-787: the stop case
RegimeLoopExit ==
    /\ regimeLoopPc = "select"
    /\ botStopCloses > 0
    /\ regimeLoopPc' = "exit"
    /\ UNCHANGED <<conn, dials, isConnected, reconnecting, started, subscriptions,
                   stopChanCloses, closeOnce, closedConns, dropped, sent, startPc,
                   startIdx, readerPc, readerConn, replaySubs, reconnectLoops,
                   heartbeatPc, closerPc, botStopCloses, stopOnce, stopperPc,
                   isRunning, mainLoopPc, limiterStopped>>
    /\ UNCHANGED otherThanStream

\* the same call with the channel closed by every caller
Close_StopChan_NoOnce ==
    /\ stopChanCloses' = stopChanCloses + 1
    /\ closeOnce' = TRUE

\* Close, lines 382-384: closeOnce.Do(close(ws.stopChan))
Close_StopChan ==
    IF closeOnce
    THEN UNCHANGED <<stopChanCloses, closeOnce>>
    ELSE /\ stopChanCloses' = stopChanCloses + 1
         /\ closeOnce' = TRUE

\* Close, lines 386-393: under the lock the conn, if any, is closed and
\* forgotten, and isConnected is cleared
Close_Locked ==
    /\ closedConns' = IF conn # 0 THEN closedConns \cup {conn} ELSE closedConns
    /\ conn' = 0
    /\ isConnected' = FALSE

\* WebSocketClient.Close called directly: lines 382-384
CloseStopChan(k) ==
    /\ closerPc[k] = "idle"
    /\ Close_StopChan
    /\ closerPc' = [closerPc EXCEPT ![k] = "lock"]
    /\ UNCHANGED <<conn, dials, isConnected, reconnecting, started, subscriptions,
                   closedConns, dropped, sent, startPc, startIdx, readerPc,
                   readerConn, replaySubs, reconnectLoops, heartbeatPc,
                   botStopCloses, stopOnce, stopperPc, isRunning, mainLoopPc,
                   regimeLoopPc, limiterStopped>>
    /\ UNCHANGED otherThanStream

\* WebSocketClient.Close called directly: lines 386-394
CloseLocked(k) ==
    /\ closerPc[k] = "lock"
    /\ Close_Locked
    /\ closerPc' = [closerPc EXCEPT ![k] = "done"]
    /\ UNCHANGED <<dials, reconnecting, started, subscriptions, stopChanCloses,
                   closeOnce, dropped, sent, startPc, startIdx, readerPc, readerConn,
                   replaySubs, reconnectLoops, heartbeatPc, botStopCloses, stopOnce,
                   stopperPc, isRunning, mainLoopPc, regimeLoopPc, limiterStopped>>
    /\ UNCHANGED otherThanStream

\* Stop, part_002 lines 860-865, called once Start has returned: the first
\* caller enters stopOnce.Do, clears isRunning and closes bot.stopChan
StopEnter(s) ==
    /\ startPc = "running"
    /\ stopperPc[s] = "idle"
    /\ stopOnce = "no"
    /\ stopOnce' = "running"
    /\ isRunning' = FALSE
    /\ botStopCloses' = botStopCloses + 1
    /\ stopperPc' = [stopperPc EXCEPT ![s] = "ws_close"]
    /\ UNCHANGED <<conn, dials, isConnected, reconnecting, started, subscriptions,
                   stopChanCloses, closeOnce, closedConns, dropped, sent, startPc,
                   startIdx, readerPc, readerConn, replaySubs, reconnectLoops,
                   heartbeatPc, closerPc, mainLoopPc, regimeLoopPc, limiterStopped>>
    /\ UNCHANGED otherThanStream

\* Stop, part_002 line 866: wsClient.Close(), lines 382-384 of websocket.go
StopCloseStream(s) ==
    /\ stopperPc[s] = "ws_close"
    /\ Close_StopChan
    /\ stopperPc' = [stopperPc EXCEPT ![s] = "ws_lock"]
    /\ UNCHANGED <<conn, dials, isConnected, reconnecting, started, subscriptions,
                   closedConns, dropped, sent, startPc, startIdx, readerPc,
                   readerConn, replaySubs, reconnectLoops, heartbeatPc, closerPc,
                   botStopCloses, stopOnce, isRunning, mainLoopPc, regimeLoopPc,
                   limiterStopped>>
    /\ UNCHANGED otherThanStream

\* Stop, part_002 lines 866-869: the rest of wsClient.Close(), then
\* deltaClient.Close() (wallet.go lines 136-140), and stopOnce.Do returns
StopFinish(s) ==
    /\ stopperPc[s] = "ws_lock"
    /\ Close_Locked
    /\ limiterStopped' = TRUE
    /\ stopOnce' = "done"
    /\ stopperPc' = [stopperPc EXCEPT ![s] = "done"]
    /\ UNCHANGED <<dials, reconnecting, started, subscriptions, stopChanCloses,
                   closeOnce, dropped, sent, startPc, startIdx, readerPc, readerConn,
                   replaySubs, reconnectLoops, heartbeatPc, closerPc, botStopCloses,
                   isRunning, mainLoopPc, regimeLoopPc>>
    /\ UNCHANGED otherThanStream

\* Stop, part_002 line 860: stopOnce.Do has completed before; the call
\* returns without running the function
StopReturn(s) ==
    /\ stopperPc[s] = "idle"
    /\ stopOnce = "done"
    /\ stopperPc' = [stopperPc EXCEPT ![s] = "done"]
    /\ UNCHANGED <<conn, dials, isConnected, reconnecting, started, subscriptions,
                   stopChanCloses, closeOnce, closedConns, dropped, sent, startPc,
                   startIdx, readerPc, readerConn, replaySubs, reconnectLoops,
                   heartbeatPc, closerPc, botStopCloses, stopOnce, isRunning,
                   mainLoopPc, regimeLoopPc, limiterStopped>>
    /\ UNCHANGED otherThanStream

StreamNext ==
    \/ NetDrop
    \/ StartConnect
    \/ StartSubscribe
    \/ StartSend
    \/ StartSpawn
    \/ ReaderSelect
    \/ ReaderMessage
    \/ ReaderReadError
    \/ ReconnectSelect
    \/ ReconnectConnect
    \/ ReconnectReplay
    \/ ReconnectDone
    \/ HeartbeatTick
    \/ HeartbeatExit
    \/ MainLoopTick
    \/ MainLoopExit
    \/ RegimeLoopTick
    \/ RegimeLoopExit
    \/ \E k \in Closers : CloseStopChan(k)
    \/ \E k \in Closers : CloseLocked(k)
    \/ \E s \in Stoppers : StopEnter(s)
    \/ \E s \in Stoppers : StopCloseStream(s)
    \/ \E s \in Stoppers : StopFinish(s)
    \/ \E s \in Stoppers : StopReturn(s)

(***************************************************************************)
(* Part IV -- the venue client (wallet.go): the rate-limit ticker and the   *)
(* retry loop of doRequest.                                                *)
(***************************************************************************)
\* APIRateLimitRPS, the default of DELTA_API_RATE_LIMIT_RPS
RPS == 8
MaxClock == 20
\* doRequest, line 184: attempt < 3
maxAttempts == 3
Callers == {"a", "b"}

\* NewClient, lines 116-124: interval = time.Second / rps; in halves of the
\* interval a second is 2 * rps long
Second == 2 * RPS

\* what one attempt can meet: the transport fails, the body cannot be read,
\* or a response with a status and a body arrives
StatusCodes == {200, 301, 400, 404, 429, 500, 503}
Bodies == {"success", "failure", "garbage"}
\* acted tells whether the venue carried the request out: it has when it
\* answers 2xx with success, it has not when it answers 3xx or 4xx, and either
\* is possible when the answer is lost or is a 5xx
Attempts ==
    {[kind |-> k, status |-> 0, body |-> "", acted |-> d] :
              k \in {"neterr", "readerr"}, d \in BOOLEAN}
    \cup {[kind |-> "http", status |-> st, body |-> "failure", acted |-> d] :
              st \in {500, 503}, d \in BOOLEAN}
    \cup {[kind |-> "http", status |-> st, body |-> "failure", acted |-> FALSE] :
              st \in StatusCodes \ {200, 500, 503}}
    \cup {[kind |-> "http", status |-> 200, body |-> b, acted |-> (b = "success")] :
              b \in Bodies}

\* NewClient, lines 106-134: the ticker is started, its channel is empty
ClientInit ==
    /\ clock = 0
    /\ limiterC = FALSE
    /\ issued = {}
    /\ callerPc = [c \in Callers |-> "idle"]
    /\ reqPc = "idle"
    /\ attempt = 0
    /\ tries = <<>>
    /\ reqResult = ""

\* time.Ticker (NewClient, line 132): half an interval passes; at every whole
\* interval the ticker puts a tick into limiter.C unless one is still there,
\* and no more once Client.Close (lines 136-140) has stopped it
Advance ==
    /\ clock < MaxClock
    /\ clock' = clock + 1
    /\ limiterC' = (limiterC \/ ((clock + 1) % 2 = 0 /\ ~limiterStopped))
    /\ UNCHANGED <<issued, callerPc, reqPc, attempt, tries, reqResult>>
    /\ UNCHANGED otherThanClient

\* doRequest is called and blocks on line 158
Call(c) ==
    /\ callerPc[c] = "idle"
    /\ callerPc' = [callerPc EXCEPT ![c] = "limiter"]
    /\ UNCHANGED <<clock, limiterC, issued, reqPc, attempt, tries, reqResult>>
    /\ UNCHANGED otherThanClient

\* doRequest, line 158: <-c.limiter.C; the rest of the call does not touch
\* the limiter
Acquire(c) ==
    /\ callerPc[c] = "limiter"
    /\ limiterC
    /\ limiterC' = FALSE
    /\ issued' = issued \cup {clock}
    /\ callerPc' = [callerPc EXCEPT ![c] = "idle"]
    /\ UNCHANGED <<clock, reqPc, attempt, tries, reqResult>>
    /\ UNCHANGED otherThanClient

\* the traced doRequest is called and blocks on line 158
RequestCall ==
    /\ reqPc = "idle"
    /\ reqPc' = "limiter"
    /\ UNCHANGED <<clock, limiterC, issued, callerPc, attempt, tries, reqResult>>
    /\ UNCHANGED otherThanClient

\* doRequest, lines 158-181: the tick is received; a body that cannot be
\* marshalled ends the call before the first attempt
RequestAcquire ==
    /\ reqPc = "limiter"
    /\ limiterC
    /\ limiterC' = FALSE
    /\ issued' = issued \cup {clock}
    /\ \E marshalled \in BOOLEAN :
          IF marshalled
          THEN reqPc' = "attempt" /\ reqResult' = ""
          ELSE reqPc' = "done" /\ reqResult' = "marshal body"
    /\ attempt' = 0
    /\ UNCHANGED <<clock, callerPc, tries>>
    /\ UNCHANGED otherThanClient

\* doRequest with every status of 400 and above retried
RetryStatus_From400(status) == status >= 400

\* doRequest, line 213: resp.StatusCode == 429 || resp.StatusCode >= 500
RetryStatus(status) == status = 429 \/ status >= 500

\* doRequest, lines 200-203 and 213-224: the attempt is given up, the loop
\* sleeps and goes round; after the last round line 247 returns lastErr
Retry ==
    /\ attempt' = attempt + 1
    /\ IF attempt + 1 < maxAttempts
       THEN reqPc' = "attempt" /\ reqResult' = ""
       ELSE reqPc' = "done" /\ reqResult' = "request failed after retries"

\* doRequest, lines 184-245: one round of the loop
RequestAttempt ==
    /\ reqPc = "attempt"
    /\ attempt < maxAttempts
    /\ \E a \in Attempts :
          /\ tries' = Append(tries, a)
          /\ IF a.kind = "neterr"
             THEN Retry
             ELSE IF a.kind = "readerr"
             THEN reqPc' = "done" /\ reqResult' = "read response" /\ UNCHANGED attempt
             ELSE IF RetryStatus(a.status)
             THEN Retry
             ELSE IF a.status < 200 \/ a.status >= 300
             THEN reqPc' = "done" /\ reqResult' = "http" /\ UNCHANGED attempt
             ELSE IF a.body = "garbage"
             THEN reqPc' = "done" /\ reqResult' = "parse response" /\ UNCHANGED attempt
             ELSE IF a.body = "failure"
             THEN reqPc' = "done" /\ reqResult' = "API error" /\ UNCHANGED attempt
             ELSE reqPc' = "done" /\ reqResult' = "ok" /\ UNCHANGED attempt
    /\ UNCHANGED <<clock, limiterC, issued, callerPc>>
    /\ UNCHANGED otherThanClient

LimiterNext ==
    \/ Advance
    \/ \E c \in Callers : Call(c)
    \/ \E c \in Callers : Acquire(c)

RequestNext ==
    \/ Advance
    \/ RequestCall
    \/ RequestAcquire
    \/ RequestAttempt

(***************************************************************************)
(* Part V -- position sizing (manager.go) and its caller.  Prices and       *)
(* balances are whole numbers; a contract value is given in thousandths.    *)
(***************************************************************************)
\* config defaults: RISK_PER_TRADE_PCT, STOP_LOSS_PCT, DELTA_LEVERAGE,
\* DELTA_MAX_POSITION_PCT
RiskPerTradePct == 1
StopLossPct == 2
Leverage == 10
MaxPositionPct == 10

Regimes == {"bull", "bear", "ranging", "high_volatility", "low_volatility"}

\* the calls of executeTradeForSymbol that are followed
Signals ==
    [balance : {100, 1000, 10000},
     price : {100, 50000},
     stopLossPct : {0, 1, 5},
     regime : Regimes,
     contractValue : {1, 1000}]

\* Signal.StopLoss: none, or the price less 1 or 5 per cent
SignalStopLoss(sig) ==
    IF sig.stopLossPct = 0 THEN 0 ELSE (sig.price * (100 - sig.stopLossPct)) \div 100

\* getRegimeMultiplier, lines 180-195, in tenths
getRegimeMultiplier(regime) ==
    CASE regime = "bull" -> 12
      [] regime = "bear" -> 8
      [] regime = "ranging" -> 10
      [] regime = "high_volatility" -> 5
      [] regime = "low_volatility" -> 10

\* CalculateStopLoss, lines 224-232, with atr = 0: the stop distance as a
\* share of the entry price, in tenths of a per cent
StopPct(regime) ==
    CASE regime = "high_volatility" -> StopLossPct * 15
      [] regime = "low_volatility" -> StopLossPct * 8
      [] OTHER -> StopLossPct * 10

\* executeTradeForSymbol, part_002 lines 671-674, and CalculatePositionSize,
\* lines 150-154: |entryPrice - stopLossPrice| as a fraction num / den; the
\* stop is the signal's or, if it has none, CalculateStopLoss's
riskPerContract(sig) ==
    IF SignalStopLoss(sig) <= 0
    THEN [num |-> sig.price * StopPct(sig.regime), den |-> 1000]
    ELSE IF sig.price - SignalStopLoss(sig) # 0
    THEN [num |-> sig.price - SignalStopLoss(sig), den |-> 1]
    ELSE [num |-> sig.price * StopLossPct, den |-> 100]

\* CalculatePositionSize, lines 142-163: floor(balance * RiskPerTradePct/100
\* * multiplier / riskPerContract * Leverage)
Contracts(sig) ==
    (sig.balance * RiskPerTradePct * getRegimeMultiplier(sig.regime) * Leverage
        * riskPerContract(sig).den)
    \div (100 * 10 * riskPerContract(sig).num)

\* calculateMaxSize, lines 198-214
calculateMaxSize(sig) ==
    (sig.balance * MaxPositionPct * Leverage * 10)
    \div (sig.price * sig.contractValue)

\* CalculatePositionSize, lines 163-169: the size after the position limit
SizeWithinLimit(sig) ==
    IF Contracts(sig) > calculateMaxSize(sig)
    THEN calculateMaxSize(sig)
    ELSE Contracts(sig)

\* CalculatePositionSize, lines 171-176: the minimum size
CalculatePositionSize(sig) ==
    IF SizeWithinLimit(sig) < 1 THEN 1 ELSE SizeWithinLimit(sig)

MaxCycles == 2

SizingInit ==
    /\ tradePc = "signal"
    /\ signal \in Signals
    /\ size = 0
    /\ tradeOrder = 0
    /\ signalSide \in {"buy", "sell"}
    /\ venueSize = 0
    /\ cycles = 1

\* executeTradeForSymbol, part_002 lines 671-687
SizeTrade ==
    /\ tradePc = "signal"
    /\ size' = CalculatePositionSize(signal)
    /\ tradePc' = "sized"
    /\ UNCHANGED <<signal, tradeOrder, signalSide, venueSize, cycles>>
    /\ UNCHANGED otherThanSizing

\* executeTradeForSymbol, part_002 lines 689-717: a size of 0 or less skips
\* the trade, any other is sent to PlaceLimitOrderWithFallback
PlaceTrade ==
    /\ tradePc = "sized"
    /\ IF size <= 0
       THEN tradePc' = "skipped" /\ tradeOrder' = 0
       ELSE tradePc' = "placed" /\ tradeOrder' = size
    /\ UNCHANGED <<signal, size, signalSide, venueSize, cycles>>
    /\ UNCHANGED otherThanSizing

SizingNext ==
    \/ SizeTrade
    \/ PlaceTrade

\* executeTradeForSymbol, part_002 lines 717-727: PlaceLimitOrderWithFallback
\* returns the order, which the venue has added to the position of the
\* product (Position.Size is the net of the buys and the sells)
TradeFilled ==
    /\ tradePc = "placed"
    /\ venueSize' = IF signalSide = "buy" THEN venueSize + tradeOrder
                    ELSE venueSize - tradeOrder
    /\ tradePc' = "filled"
    /\ UNCHANGED <<signal, size, tradeOrder, signalSide, cycles>>
    /\ UNCHANGED otherThanSizing

\* executeTradeForSymbol, part_002 lines 717-721: PlaceLimitOrderWithFallback
\* returns an error and nothing was filled
TradeFailed ==
    /\ tradePc = "placed"
    /\ tradePc' = "failed"
    /\ UNCHANGED <<signal, size, tradeOrder, signalSide, venueSize, cycles>>
    /\ UNCHANGED otherThanSizing

\* tradingCycle, part_002 lines 500-541, and executeSignalForSymbol, lines
\* 634-667: a later cycle's buy or sell signal for the same product reaches
\* executeTradeForSymbol, whatever position the venue holds
NextEntrySignal ==
    /\ tradePc \in {"filled", "failed", "skipped"}
    /\ cycles < MaxCycles
    /\ cycles' = cycles + 1
    /\ \E sig \in Signals :
         /\ sig.balance = signal.balance
         /\ sig.contractValue = signal.contractValue
         /\ signal' = sig
    /\ signalSide' \in {"buy", "sell"}
    /\ tradePc' = "signal"
    /\ size' = 0
    /\ tradeOrder' = 0
    /\ UNCHANGED venueSize
    /\ UNCHANGED otherThanSizing

EntriesNext ==
    \/ SizeTrade
    \/ PlaceTrade
    \/ TradeFilled
    \/ TradeFailed
    \/ NextEntrySignal

(***************************************************************************)
(* Part VI -- the backtest engine (engine.go).  One step is one iteration   *)
(* of simulate's loop.  The candles are drawn as the replay reaches them;   *)
(* capital is ample, so a position that is asked for is opened.             *)
(***************************************************************************)
MaxBars == 3

BacktestSymbols == {"BTCUSD", "ETHUSD"}

\* the zero time.Time
NoTime == -1
NoCandle == [Time |-> NoTime]
NoPosition == [Side |-> "none"]
NoPending == [SignalTime |-> NoTime]
NoFill == [at |-> NoTime]

\* the first candle is at 00:00 UTC of 1 January 1970
StartTimes == {0}

\* minutes between one timestamp and the next
Gaps == {5, 475, 44640}

\* the shapes of a candle
CandleShapes ==
    { [Open |-> 10000, High |-> 10100, Low |-> 9900, Close |-> 10100],
      [Open |-> 10200, High |-> 10300, Low |-> 10100, Close |-> 10100] }

\* what StrategyManager.GetSignal can answer
StrategySignals ==
    { [Action |-> "none", Side |-> "", StopLoss |-> 0],
      [Action |-> "buy", Side |-> "buy", StopLoss |-> 10000],
      [Action |-> "sell", Side |-> "sell", StopLoss |-> 10200],
      [Action |-> "close", Side |-> "", StopLoss |-> 0] }

\* Engine.fundingRates as FetchFundingRates can load it, sorted by time; the
\* rate is in hundredths of a per cent
RateTables ==
    { << >>,
      << [Timestamp |-> 0, Rate |-> 1] >>,
      << [Timestamp |-> 480, Rate |-> 1], [Timestamp |-> 960, Rate |-> -1] >> }

\* Config.SimulateFunding, types.go line 51
SimulateFunding == TRUE

\* time.Time.Day of a time in 1970
RECURSIVE DayIn(_, _)
DayIn(d, m) ==
    LET days == <<31, 28, 31, 30, 31, 30, 31, 31, 30, 31, 30, 31>>
    IN  IF d < days[m] THEN d + 1 ELSE DayIn(d - days[m], m + 1)

DayOfMonth(t) == DayIn(t \div 1440, 1)

\* the mutant of crossedFundingBoundary that wants the boundary strictly
\* passed
crossedFundingBoundary_Strict(prev, curr) ==
    \E h \in {0, 8, 16} :
        LET fundingTime == (curr \div 1440) * 1440 + h * 60
        IN  \/ prev < fundingTime /\ curr > fundingTime
            \/ h = 0 /\ DayOfMonth(prev) # DayOfMonth(curr)

\* crossedFundingBoundary, lines 278-294
crossedFundingBoundary(prev, curr) ==
    \E h \in {0, 8, 16} :
        LET fundingTime == (curr \div 1440) * 1440 + h * 60
        IN  \/ prev < fundingTime /\ (curr = fundingTime \/ curr > fundingTime)
            \/ h = 0 /\ DayOfMonth(prev) # DayOfMonth(curr)

\* shouldProcessFunding, lines 270-275
shouldProcessFunding(prev, ts) ==
    IF prev = NoTime THEN FALSE ELSE crossedFundingBoundary(prev, ts)

\* GetFundingAtTime, funding.go lines 269-280
RECURSIVE GetFundingFrom(_, _, _, _)
GetFundingFrom(rates, t, i, applicable) ==
    IF i > Len(rates) THEN applicable
    ELSE IF rates[i].Timestamp <= t
    THEN GetFundingFrom(rates, t, i + 1, rates[i].Rate)
    ELSE applicable

GetFundingAtTime(rates, t) == GetFundingFrom(rates, t, 1, 0)

\* processFunding, lines 304-341, for one position: the payment taken from
\* the equity, in hundredths of a per cent of a price unit
FundingPayment(pos, candle, rates, ts) ==
    LET rate == GetFundingAtTime(rates, ts)
        markPrice == IF candle # NoCandle THEN candle.Close ELSE pos.EntryPrice
        notional == pos.Size * markPrice
    IN  IF pos = NoPosition \/ rate = 0 \/ notional <= 0 THEN 0
        ELSE IF pos.Side = "buy" THEN notional * rate
        ELSE 0 - notional * rate

\* FixedSlippage.Calculate, slippage_test.go lines 745-748, for a Config whose
\* SlippageModel is NewFixedSlippage(2.0)
Calculate(candle) == (((candle.High + candle.Low) \div 2) * 2) \div 10000

\* ApplySlippage, slippage_test.go lines 838-843
ApplySlippage(price, slippage, side) ==
    IF side = "buy" THEN price + slippage ELSE price - slippage

\* openPositionAtPrice, lines 407-453
openPositionAtPrice(sig, candle, ts, fillPrice) ==
    [Side |-> sig.Side, Size |-> 1,
     EntryPrice |-> ApplySlippage(fillPrice, Calculate(candle), sig.Side),
     EntryTime |-> ts, StopLoss |-> sig.StopLoss]

\* processSignalAtPrice, lines 381-404: the position of the symbol afterwards
processSignalAtPrice(pos, sig, candle, ts, fillPrice) ==
    IF sig.Action \in {"buy", "sell"}
    THEN IF pos # NoPosition /\ pos.Side = sig.Action
         THEN pos
         ELSE openPositionAtPrice(sig, candle, ts, fillPrice)
    ELSE IF sig.Action = "close" THEN NoPosition
    ELSE pos

\* the mutant of FillOf that fills at the close
FillOf_Close(order, candle, ts) ==
    [SignalTime |-> order.SignalTime, at |-> ts, price |-> candle.Close]

\* executePendingOrders, line 262: the call of processSignalAtPrice
FillOf(order, candle, ts) ==
    [SignalTime |-> order.SignalTime, at |-> ts, price |-> candle.Open]

\* checkExits, lines 344-381, for one position (no take-profit is set)
checkExits(pos, candle) ==
    IF pos = NoPosition \/ candle = NoCandle THEN pos
    ELSE IF pos.Side = "buy" /\ candle.Low <= pos.StopLoss /\ pos.StopLoss > 0
    THEN NoPosition
    ELSE IF pos.Side = "sell" /\ candle.High >= pos.StopLoss /\ pos.StopLoss > 0
    THEN NoPosition
    ELSE pos

BacktestInit ==
    /\ processed = 0
    /\ prevTimestamp = NoTime
    /\ positions = [s \in BacktestSymbols |-> NoPosition]
    /\ pendingOrders = [s \in BacktestSymbols |-> NoPending]
    /\ fundingRates \in RateTables
    /\ lastBar = [s \in BacktestSymbols |-> NoCandle]
    /\ lastSignal = [s \in BacktestSymbols |-> "none"]
    /\ lastFill = [s \in BacktestSymbols |-> NoFill]
    /\ fundingRuns = 0
    /\ fundingPaid = [s \in BacktestSymbols |-> 0]

\* simulate, lines 156-160, with processTimestamp, lines 209-251, and
\* executePendingOrders, lines 254-267: the timestamp ts has the candles bars
\* and the strategy answers sigs on them
ProcessTimestamp(ts, bars, sigs) ==
    LET funded == SimulateFunding /\ shouldProcessFunding(prevTimestamp, ts)
        executes(s) == pendingOrders[s] # NoPending /\ bars[s] # NoCandle
        executed ==
            [s \in BacktestSymbols |->
                IF executes(s)
                THEN processSignalAtPrice(positions[s], pendingOrders[s].Signal, bars[s],
                                          ts, FillOf(pendingOrders[s], bars[s], ts).price)
                ELSE positions[s]]
    IN  /\ fundingRuns' = IF funded THEN fundingRuns + 1 ELSE fundingRuns
        /\ fundingPaid' =
            [s \in BacktestSymbols |->
                IF funded THEN FundingPayment(positions[s], bars[s], fundingRates, ts) ELSE 0]
        /\ lastFill' =
            [s \in BacktestSymbols |->
                IF executes(s) THEN FillOf(pendingOrders[s], bars[s], ts) ELSE lastFill[s]]
        /\ positions' = [s \in BacktestSymbols |-> checkExits(executed[s], bars[s])]
        /\ pendingOrders' =
            [s \in BacktestSymbols |->
                IF bars[s] # NoCandle /\ sigs[s].Action # "none"
                THEN [Signal |-> sigs[s], SignalTime |-> ts]
                ELSE IF executes(s) THEN NoPending
                ELSE pendingOrders[s]]
        /\ lastBar' = [s \in BacktestSymbols |-> IF bars[s] # NoCandle THEN bars[s] ELSE lastBar[s]]
        /\ lastSignal' =
            [s \in BacktestSymbols |-> IF bars[s] # NoCandle THEN sigs[s].Action ELSE lastSignal[s]]
        /\ prevTimestamp' = ts
        /\ processed' = processed + 1
        /\ UNCHANGED fundingRates

\* the candles and signals a timestamp can have: getUniqueTimestamps, lines
\* 181-206, yields only times at which some symbol has a candle
BarsAt(ts) ==
    { bars \in [BacktestSymbols ->
                    {NoCandle} \cup { [Time |-> ts, Open |-> c.Open, High |-> c.High,
                                       Low |-> c.Low, Close |-> c.Close] : c \in CandleShapes }] :
        \E s \in BacktestSymbols : bars[s] # NoCandle }

SignalsOn(bars) ==
    { sigs \in [BacktestSymbols -> StrategySignals] :
        \A s \in BacktestSymbols : bars[s] = NoCandle => sigs[s].Action = "none" }

Simulate ==
    /\ processed < MaxBars
    /\ \E ts \in IF prevTimestamp = NoTime THEN StartTimes
                 ELSE { prevTimestamp + g : g \in Gaps } :
         \E bars \in BarsAt(ts) : \E sigs \in SignalsOn(bars) :
             ProcessTimestamp(ts, bars, sigs)
    /\ UNCHANGED otherThanBacktest

BacktestNext == Simulate

(***************************************************************************)
(* Part VII -- the books of the backtest engine (engine.go): margin, fees,  *)
(* slippage, funding and the trade log.  The operations of processTimestamp *)
(* are followed one at a time and in any order, which includes every order  *)
(* the replay can produce.  Both symbols are 0.1-contracts (MockProduct).   *)
(***************************************************************************)
MaxBookOps == 4

BookSymbols == {"SOLUSD", "SOLINR"}

\* Config of DefaultConfig: InitialCapital 200.0, Leverage 10, TakerFeeBps 5.0
InitialCapital == 20000000
BacktestLeverage == 10
TakerFeeBps == 5

\* the bps of the FixedSlippage model the Config carries
SlippageBps == 20

NoBookPosition == [Side |-> "none"]
NoTrade == [Symbol |-> ""]
NoOpen == [Symbol |-> ""]
NoPoint == [Equity |-> 0, Drawdown |-> -1]

\* candles at which an operation happens, in cents
BookCandles ==
    { [Open |-> 10000, High |-> 10100, Low |-> 9900, Close |-> 10000],
      [Open |-> 10200, High |-> 10400, Low |-> 9600, Close |-> 10100] }

\* entry and exit signals of the strategies
BookSignals ==
    { [Action |-> "buy", Side |-> "buy", StopLoss |-> 9980],
      [Action |-> "buy", Side |-> "buy", StopLoss |-> 0],
      [Action |-> "sell", Side |-> "sell", StopLoss |-> 10300],
      [Action |-> "close", Side |-> "", StopLoss |-> 0] }

\* funding rates in hundredths of a per cent
BookRates == {1, -1}

\* floor(a * b / c) for a, b >= 0 and c > 0, as the float arithmetic gives it
MulDiv(a, b, c) == (a \div c) * b + ((a % c) * b) \div c

absFloat(x) == IF x < 0 THEN 0 - x ELSE x

\* the engine's books as one value
Books ==
    [equity |-> equity, usedMargin |-> usedMargin, book |-> book, trades |-> trades,
     lastTrade |-> lastTrade, lastOpen |-> lastOpen]

\* ContractsToNotional, conversions.go lines 48-58, for a contract value of
\* 0.1: 10^-5 dollars for contracts at a price in cents
ContractsToNotional(contracts, price) == contracts * price * 100

\* NotionalToContracts, conversions.go lines 27-44
NotionalToContracts(notional, price) == notional \div (price * 100)

\* CalculateFee, slippage_test.go lines 847-850
CalculateFee(notional, feeBps) == (notional * feeBps) \div 10000

\* FixedSlippage.Calculate, slippage_test.go lines 745-748
BookSlippage(candle) == (((candle.High + candle.Low) \div 2) * SlippageBps) \div 10000

\* calculateRequiredMargin, lines 548-550
calculateRequiredMargin(notional) == notional \div BacktestLeverage

\* the mutant of getAvailableMargin that forgets the margin in use
getAvailableMargin_IgnoresUsed(e) == e.equity

\* getAvailableMargin, lines 553-555
getAvailableMargin(e) == e.equity - e.usedMargin

\* calculatePositionSize, lines 559-609
calculatePositionSize(e, entryPrice, stopLoss) ==
    LET availableMargin == getAvailableMargin(e)
        riskAmount == e.equity \div 50
        maxPositionValue == availableMargin * BacktestLeverage
        byStop ==
            IF stopLoss > 0 /\ entryPrice > 0 /\ absFloat(entryPrice - stopLoss) > 0
            THEN LET v == MulDiv(riskAmount, entryPrice, absFloat(entryPrice - stopLoss))
                 IN  IF v > maxPositionValue THEN maxPositionValue ELSE v
            ELSE 0
        byDefault ==
            LET v == (availableMargin \div 10) * BacktestLeverage
            IN  IF v > maxPositionValue THEN maxPositionValue ELSE v
        positionValue == IF byStop <= 0 THEN byDefault ELSE byStop
        contracts == NotionalToContracts(positionValue, entryPrice)
    IN  IF e.equity <= 1000000 THEN 0
        ELSE IF availableMargin <= 0 THEN 0
        ELSE IF contracts < 1 THEN 0
        ELSE contracts

\* the mutant of NetPnLOf that leaves the slippage costs out
NetPnLOf_NoSlip(grossPnL, exitFee, entrySlipCost, exitSlipCost) == grossPnL - exitFee

\* closePositionAtPrice, line 515
NetPnLOf(grossPnL, exitFee, entrySlipCost, exitSlipCost) ==
    grossPnL - exitFee - entrySlipCost - exitSlipCost

\* the mutant of ReleaseMargin that keeps the margin of a closed position
ReleaseMargin_Keeps(used, pos) == used

\* closePositionAtPrice, lines 468-469: the margin of the position is released
ReleaseMargin(used, pos) == used - pos.InitialMargin

\* closePositionAtPrice, lines 462-545: the books after it
closePositionAtPrice(e, symbol, exitPrice, candle) ==
    LET pos == e.book[symbol]
        exitSide == IF pos.Side = "sell" THEN "buy" ELSE "sell"
        contracts == pos.Size
        entryNotional == ContractsToNotional(contracts, pos.EntryPrice)
        slippageAmt == IF entryNotional > 0 THEN BookSlippage(candle) ELSE 0
        actualExitPrice == ApplySlippage(exitPrice, slippageAmt, exitSide)
        exitNotional == ContractsToNotional(contracts, actualExitPrice)
        exitFee == CalculateFee(exitNotional, TakerFeeBps)
        multiplier == IF pos.Side = "sell" THEN -1 ELSE 1
        grossPnL == contracts * 100 * (actualExitPrice - pos.EntryPrice) * multiplier
        entrySlipCost == pos.EntrySlip * contracts * 100
        exitSlipCost == slippageAmt * contracts * 100
        netPnL == NetPnLOf(grossPnL, exitFee, entrySlipCost, exitSlipCost)
    IN  IF pos = NoBookPosition THEN e
        ELSE [e EXCEPT
                !.usedMargin = ReleaseMargin(e.usedMargin, pos),
                !.lastTrade = [Symbol |-> symbol, Side |-> pos.Side, Size |-> pos.Size,
                               EntryFee |-> pos.EntryFee, ExitFee |-> exitFee,
                               EntrySlipCost |-> entrySlipCost,
                               ExitSlipCost |-> exitSlipCost,
                               FundingPaid |-> pos.FundingPaid,
                               GrossPnL |-> grossPnL, NetPnL |-> netPnL],
                !.trades = e.trades + 1,
                !.equity = e.equity + netPnL,
                !.book = [e.book EXCEPT ![symbol] = NoBookPosition]]

\* openPositionAtPrice, lines 407-453: the books after it
OpenPosition(e, symbol, sig, candle, fillPrice) ==
    LET contracts == calculatePositionSize(e, fillPrice, sig.StopLoss)
        notional == ContractsToNotional(contracts, fillPrice)
        requiredMargin == calculateRequiredMargin(notional)
        slippageAmt == BookSlippage(candle)
        actualEntryPrice == ApplySlippage(fillPrice, slippageAmt, sig.Side)
        fee == CalculateFee(notional, TakerFeeBps)
    IN  IF contracts <= 0 \/ notional <= 0 THEN e
        ELSE IF requiredMargin > getAvailableMargin(e) THEN e
        ELSE [e EXCEPT
                !.lastOpen = [Symbol |-> symbol, equity |-> e.equity,
                              usedMargin |-> e.usedMargin, Size |-> contracts,
                              fillPrice |-> fillPrice],
                !.usedMargin = e.usedMargin + requiredMargin,
                !.book = [e.book EXCEPT ![symbol] =
                            [Side |-> sig.Side, Size |-> contracts,
                             EntryPrice |-> actualEntryPrice, StopLoss |-> sig.StopLoss,
                             InitialMargin |-> requiredMargin, EntryFee |-> fee,
                             EntrySlip |-> slippageAmt, FundingPaid |-> 0]],
                !.equity = e.equity - fee]

\* processSignalAtPrice, lines 381-404: the books after it
ProcessSignal(e, symbol, sig, candle, fillPrice) ==
    IF sig.Action \in {"buy", "sell"}
    THEN IF e.book[symbol] # NoBookPosition /\ e.book[symbol].Side = sig.Action
         THEN e
         ELSE OpenPosition(closePositionAtPrice(e, symbol, fillPrice, candle),
                           symbol, sig, candle, fillPrice)
    ELSE closePositionAtPrice(e, symbol, fillPrice, candle)

\* the stop of a position is hit on the candle: checkExits, lines 344-378
StopHit(pos, candle) ==
    /\ pos # NoBookPosition
    /\ pos.StopLoss > 0
    /\ IF pos.Side = "buy" THEN candle.Low <= pos.StopLoss
       ELSE candle.High >= pos.StopLoss

\* processFunding, lines 304-341, for the position of one symbol
FundPosition(e, symbol, rate, candle) ==
    LET pos == e.book[symbol]
        notional == ContractsToNotional(pos.Size, candle.Close)
        payment == (notional * rate) \div 10000
    IN  IF pos = NoBookPosition \/ rate = 0 \/ notional <= 0 THEN e
        ELSE IF pos.Side = "buy"
        THEN [e EXCEPT !.book[symbol].FundingPaid = pos.FundingPaid + payment,
                       !.equity = e.equity - payment]
        ELSE [e EXCEPT !.book[symbol].FundingPaid = pos.FundingPaid - payment,
                       !.equity = e.equity + payment]

SetBooks(e) ==
    /\ UNCHANGED <<peakEquity, lastPoint>>
    /\ equity' = e.equity
    /\ usedMargin' = e.usedMargin
    /\ book' = e.book
    /\ trades' = e.trades
    /\ lastTrade' = e.lastTrade
    /\ lastOpen' = e.lastOpen

\* NewEngine, lines 49-65
AccountInit ==
    /\ equity = InitialCapital
    /\ usedMargin = 0
    /\ book = [s \in BookSymbols |-> NoBookPosition]
    /\ trades = 0
    /\ lastTrade = NoTrade
    /\ lastOpen = NoOpen
    /\ peakEquity = InitialCapital
    /\ lastPoint = NoPoint
    /\ bookOps = 0

\* executePendingOrders, lines 254-267: a queued signal is executed at the
\* open of the symbol's candle
ExecutePending ==
    /\ bookOps < MaxBookOps
    /\ \E symbol \in BookSymbols, sig \in BookSignals, candle \in BookCandles :
         SetBooks(ProcessSignal(Books, symbol, sig, candle, candle.Open))
    /\ bookOps' = bookOps + 1
    /\ UNCHANGED otherThanAccount

\* checkExits, lines 344-378, on the candle of one symbol
CheckExits ==
    /\ bookOps < MaxBookOps
    /\ \E symbol \in BookSymbols, candle \in BookCandles :
         /\ StopHit(book[symbol], candle)
         /\ SetBooks(closePositionAtPrice(Books, symbol, book[symbol].StopLoss, candle))
    /\ bookOps' = bookOps + 1
    /\ UNCHANGED otherThanAccount

\* processFunding, lines 304-341, at a timestamp where both symbols close at
\* the same candle
ProcessFunding ==
    /\ bookOps < MaxBookOps
    /\ \E s \in BookSymbols : book[s] # NoBookPosition
    /\ \E rate \in BookRates, candle \in BookCandles :
         SetBooks(FundPosition(FundPosition(Books, "SOLUSD", rate, candle),
                               "SOLINR", rate, candle))
    /\ bookOps' = bookOps + 1
    /\ UNCHANGED otherThanAccount

\* Position.UnrealizedPnL, part_013 lines 87-95, for a contract value of 0.1
UnrealizedPnL(pos, markPrice) ==
    IF pos = NoBookPosition THEN 0
    ELSE pos.Size * 100 * (markPrice - pos.EntryPrice)
             * (IF pos.Side = "sell" THEN -1 ELSE 1)

\* the drawdown of updateEquityCurve, lines 657-660, in per cent
DrawdownOf(peak, totalEquity) ==
    IF peak > 0 THEN ((peak - totalEquity) * 100) \div peak ELSE 0

\* the mutant of updateEquityCurve that measures against the peak as it was
updateEquityCurve_StalePeak(e, peak, markUsd, markInr) ==
    LET totalEquity == e.equity + UnrealizedPnL(e.book["SOLUSD"], markUsd)
                                + UnrealizedPnL(e.book["SOLINR"], markInr)
        newPeak == IF totalEquity > peak THEN totalEquity ELSE peak
    IN  [peak |-> newPeak,
         point |-> [Equity |-> totalEquity, Drawdown |-> DrawdownOf(peak, totalEquity)]]

\* updateEquityCurve, lines 623-667: the peak and the point appended
updateEquityCurve(e, peak, markUsd, markInr) ==
    LET totalEquity == e.equity + UnrealizedPnL(e.book["SOLUSD"], markUsd)
                                + UnrealizedPnL(e.book["SOLINR"], markInr)
        newPeak == IF totalEquity > peak THEN totalEquity ELSE peak
    IN  [peak |-> newPeak,
         point |-> [Equity |-> totalEquity, Drawdown |-> DrawdownOf(newPeak, totalEquity)]]

\* the prices updateEquityCurve marks a position at, lines 629-640: the close
\* of the candle at the timestamp, else the last close, else the entry price
MarkPrices(pos) ==
    {c.Close : c \in BookCandles}
        \cup (IF pos = NoBookPosition THEN {} ELSE {pos.EntryPrice})

\* updateEquityCurve at the end of processTimestamp, line 248
UpdateEquityCurve ==
    /\ bookOps < MaxBookOps
    /\ \E markUsd \in MarkPrices(book["SOLUSD"]), markInr \in MarkPrices(book["SOLINR"]) :
         LET r == updateEquityCurve(Books, peakEquity, markUsd, markInr)
         IN  /\ peakEquity' = r.peak
             /\ lastPoint' = r.point
    /\ bookOps' = bookOps + 1
    /\ UNCHANGED <<equity, usedMargin, book, trades, lastTrade, lastOpen>>
    /\ UNCHANGED otherThanAccount

AccountNext ==
    \/ ExecutePending
    \/ CheckExits
    \/ ProcessFunding
    \/ UpdateEquityCurve

(***************************************************************************)
(* Part VIII -- the funding arbitrage strategy (funding_arbitrage.go) for   *)
(* one symbol, with DefaultFundingArbitrageConfig.                          *)
(***************************************************************************)
MaxFaHours == 26
MaxFaCalls == 4

\* DefaultFundingArbitrageConfig, lines 18-26
EntryThresholdAnnualized == 15
ExitThresholdAnnualized == 5
MaxHoldingHours == 24
FundingArbEnabled == TRUE

NoFundingPosition == [Side |-> "none", EntryTime |-> 0]
NoFaSignal == [Action |-> "", fundingAnn |-> 0, position |-> NoFundingPosition, at |-> 0]

\* MarketFeatures.BasisAnnualized as the strategy can be given it
FundingLevels == {-20, -16, -15, -5, -4, 0, 4, 5, 10, 15, 16, 20}

\* the mutant of FundingArbitrageAnalyze that closes at the holding limit
\* already
FundingArbitrageAnalyze_AtLimit(fundingAnn, pos, wallTime) ==
    IF ~FundingArbEnabled THEN "none"
    ELSE IF pos # NoFundingPosition
    THEN IF absFloat(fundingAnn) < ExitThresholdAnnualized THEN "close"
         ELSE IF wallTime - pos.EntryTime >= MaxHoldingHours THEN "close"
         ELSE "none"
    ELSE IF absFloat(fundingAnn) > EntryThresholdAnnualized
    THEN IF fundingAnn < 0 THEN "buy" ELSE "sell"
    ELSE "none"

\* Analyze, lines 51-96: the Action of the Signal
FundingArbitrageAnalyze(fundingAnn, pos, wallTime) ==
    IF ~FundingArbEnabled THEN "none"
    ELSE IF pos # NoFundingPosition
    THEN IF absFloat(fundingAnn) < ExitThresholdAnnualized THEN "close"
         ELSE IF wallTime - pos.EntryTime > MaxHoldingHours THEN "close"
         ELSE "none"
    ELSE IF absFloat(fundingAnn) > EntryThresholdAnnualized
    THEN IF fundingAnn < 0 THEN "buy" ELSE "sell"
    ELSE "none"

\* NewFundingArbitrageStrategy, lines 39-44
FundingArbInit ==
    /\ faPosition = NoFundingPosition
    /\ faNow = 0
    /\ faSignal = NoFaSignal
    /\ faCalls = 0

\* Analyze, lines 51-96
FaAnalyze ==
    /\ faCalls < MaxFaCalls
    /\ \E fundingAnn \in FundingLevels :
         faSignal' = [Action |-> FundingArbitrageAnalyze(fundingAnn, faPosition, faNow),
                      fundingAnn |-> fundingAnn, position |-> faPosition, at |-> faNow]
    /\ faCalls' = faCalls + 1
    /\ UNCHANGED <<faPosition, faNow>>
    /\ UNCHANGED otherThanFundingArb

\* RecordEntry, lines 111-118
FaRecordEntry ==
    /\ faCalls < MaxFaCalls
    /\ \E side \in {"buy", "sell"} : faPosition' = [Side |-> side, EntryTime |-> faNow]
    /\ faCalls' = faCalls + 1
    /\ UNCHANGED <<faNow, faSignal>>
    /\ UNCHANGED otherThanFundingArb

\* RecordExit, lines 120-122
FaRecordExit ==
    /\ faCalls < MaxFaCalls
    /\ faPosition' = NoFundingPosition
    /\ faCalls' = faCalls + 1
    /\ UNCHANGED <<faNow, faSignal>>
    /\ UNCHANGED otherThanFundingArb

\* the wall clock goes on
FaTime ==
    /\ \E h \in {12, 13} : faNow + h <= MaxFaHours /\ faNow' = faNow + h
    /\ UNCHANGED <<faPosition, faSignal, faCalls>>
    /\ UNCHANGED otherThanFundingArb

FundingArbNext ==
    \/ FaAnalyze
    \/ FaRecordEntry
    \/ FaRecordExit
    \/ FaTime

(***************************************************************************)
(* Part IX -- the grid trader (grid_trading.go) and the structural         *)
(* selector over funding arbitrage, grid and scalper (strategy_selector.go).*)
(***************************************************************************)
MaxSelCalls == 3

\* DefaultGridConfig, lines 20-29
GridRangePct == 3
DefaultGridConfig == [MinVolatilityPct |-> 150, MaxVolatilityPct |-> 200, Enabled |-> TRUE]

\* the configurations a grid is built with: the default one, the default one
\* switched off, and the tighter one of TestGridTrading_Analyze_Activation
GridConfigs ==
    { DefaultGridConfig,
      [DefaultGridConfig EXCEPT !.Enabled = FALSE],
      [MinVolatilityPct |-> 30, MaxVolatilityPct |-> 50, Enabled |-> TRUE] }

NotConsulted == "-"
NoFeatures == [BasisAnnualized |-> 0, HistoricalVol |-> 0, mid |-> 0, obi |-> "none"]
NoSelection == [name |-> "", Action |-> ""]

\* MarketFeatures: the annualized basis, the historical volatility, the middle
\* of best bid and best ask, and the confirmed order-book imbalance the
\* scalper reads from the feature engine
FeatureSets ==
    [BasisAnnualized : {-20, 2, 15, 20}, HistoricalVol : {5, 20, 70, 250},
     mid : {50000, 51300}, obi : {"none", "buy"}]

Grid == [cfg |-> gridCfg, IsActive |-> gridActive, centerPrice |-> gridCenter,
         levels |-> gridLevels]

\* CalculateLevels, lines 125-140: levels[0] and levels[len-1]
CalculateLevels(midPrice) ==
    <<midPrice - (midPrice * GridRangePct) \div 100,
      midPrice + (midPrice * GridRangePct) \div 100>>

\* the mutant of GridAnalyze that leaves the grid active on high volatility
GridAnalyze_StaysActive(g, f) ==
    IF ~g.cfg.Enabled THEN [grid |-> g, Action |-> "none"]
    ELSE IF ~g.IsActive
    THEN IF f.HistoricalVol < g.cfg.MinVolatilityPct /\ f.HistoricalVol > 5
         THEN [grid |-> [g EXCEPT !.IsActive = TRUE, !.centerPrice = f.mid,
                                  !.levels = CalculateLevels(f.mid)],
               Action |-> "none"]
         ELSE [grid |-> g, Action |-> "none"]
    ELSE IF f.HistoricalVol > g.cfg.MaxVolatilityPct
    THEN [grid |-> g, Action |-> "close"]
    ELSE IF absFloat(f.mid - g.centerPrice) * 1000 > g.centerPrice * GridRangePct * 8
    THEN [grid |-> [g EXCEPT !.IsActive = FALSE], Action |-> "close"]
    ELSE IF f.mid < g.levels[1] THEN [grid |-> g, Action |-> "buy"]
    ELSE IF f.mid > g.levels[2] THEN [grid |-> g, Action |-> "sell"]
    ELSE [grid |-> g, Action |-> "none"]

\* GridTradingStrategy.Analyze, lines 57-123: the grid afterwards and the
\* Action of the Signal
GridAnalyze(g, f) ==
    IF ~g.cfg.Enabled THEN [grid |-> g, Action |-> "none"]
    ELSE IF ~g.IsActive
    THEN IF f.HistoricalVol < g.cfg.MinVolatilityPct /\ f.HistoricalVol > 5
         THEN [grid |-> [g EXCEPT !.IsActive = TRUE, !.centerPrice = f.mid,
                                  !.levels = CalculateLevels(f.mid)],
               Action |-> "none"]
         ELSE [grid |-> g, Action |-> "none"]
    ELSE IF f.HistoricalVol > g.cfg.MaxVolatilityPct
    THEN [grid |-> [g EXCEPT !.IsActive = FALSE], Action |-> "close"]
    ELSE IF absFloat(f.mid - g.centerPrice) * 1000 > g.centerPrice * GridRangePct * 8
    THEN [grid |-> [g EXCEPT !.IsActive = FALSE], Action |-> "close"]
    ELSE IF f.mid < g.levels[1] THEN [grid |-> g, Action |-> "buy"]
    ELSE IF f.mid > g.levels[2] THEN [grid |-> g, Action |-> "sell"]
    ELSE [grid |-> g, Action |-> "none"]

\* FeeAwareScalper.Analyze, ranging.go lines 291-310, with the scalper
\* enabled and the spread in range: none under 10 % volatility, else the
\* direction of the persistent, confirmed imbalance
ScalperAnalyze(f) ==
    IF f.HistoricalVol < 10 THEN "none" ELSE f.obi

\* the mutant of SelectBest that asks whether the grid is active before
\* consulting it
SelectBest_ActiveBefore(g, pos, wallTime, f) ==
    LET fa == FundingArbitrageAnalyze(f.BasisAnnualized, pos, wallTime)
        ga == GridAnalyze(g, f)
    IN  IF absFloat(f.BasisAnnualized) > 15 /\ fa # "none"
        THEN [name |-> "funding_arbitrage", Action |-> fa, grid |-> g,
              gridSignal |-> NotConsulted]
        ELSE IF g.cfg.Enabled /\ g.IsActive
        THEN [name |-> "grid_trading", Action |-> ga.Action, grid |-> ga.grid,
              gridSignal |-> ga.Action]
        ELSE [name |-> "fee_aware_scalper", Action |-> ScalperAnalyze(f),
              grid |-> IF g.cfg.Enabled THEN ga.grid ELSE g,
              gridSignal |-> IF g.cfg.Enabled THEN ga.Action ELSE NotConsulted]

\* StrategySelector.SelectBest, strategy_selector.go: the name and the Action
\* returned, the grid afterwards and what the grid answered if consulted
SelectBest(g, pos, wallTime, f) ==
    LET fa == FundingArbitrageAnalyze(f.BasisAnnualized, pos, wallTime)
        ga == GridAnalyze(g, f)
    IN  IF absFloat(f.BasisAnnualized) > 15 /\ fa # "none"
        THEN [name |-> "funding_arbitrage", Action |-> fa, grid |-> g,
              gridSignal |-> NotConsulted]
        ELSE IF g.cfg.Enabled /\ ga.grid.IsActive
        THEN [name |-> "grid_trading", Action |-> ga.Action, grid |-> ga.grid,
              gridSignal |-> ga.Action]
        ELSE [name |-> "fee_aware_scalper", Action |-> ScalperAnalyze(f),
              grid |-> IF g.cfg.Enabled THEN ga.grid ELSE g,
              gridSignal |-> IF g.cfg.Enabled THEN ga.Action ELSE NotConsulted]

SetGrid(g) ==
    /\ gridActive' = g.IsActive
    /\ gridCenter' = g.centerPrice
    /\ gridLevels' = g.levels
    /\ UNCHANGED gridCfg

\* NewGridTradingStrategy, lines 46-51, and NewStrategySelector
SelectorInit ==
    /\ gridCfg \in GridConfigs
    /\ gridActive = FALSE
    /\ gridCenter = 0
    /\ gridLevels = <<0, 0>>
    /\ features = NoFeatures
    /\ gridSignal = NotConsulted
    /\ selected = NoSelection
    /\ evaluated = ""
    /\ selCalls = 0

\* a caller evaluates the grid itself: GridTradingStrategy.Analyze
GridEvaluate ==
    /\ selCalls < MaxSelCalls
    /\ \E f \in FeatureSets :
         LET ga == GridAnalyze(Grid, f)
         IN  /\ SetGrid(ga.grid)
             /\ gridSignal' = ga.Action
             /\ features' = f
    /\ evaluated' = "Analyze"
    /\ selCalls' = selCalls + 1
    /\ UNCHANGED selected
    /\ UNCHANGED otherThanSelector

\* StrategySelector.SelectBest
Select ==
    /\ selCalls < MaxSelCalls
    /\ \E f \in FeatureSets :
         LET best == SelectBest(Grid, faPosition, faNow, f)
         IN  /\ SetGrid(best.grid)
             /\ gridSignal' = best.gridSignal
             /\ selected' = [name |-> best.name, Action |-> best.Action]
             /\ features' = f
    /\ evaluated' = "SelectBest"
    /\ selCalls' = selCalls + 1
    /\ UNCHANGED otherThanSelector

\* a day and an hour pass
SelectorTime ==
    /\ faNow + 25 <= MaxFaHours
    /\ faNow' = faNow + 25
    /\ UNCHANGED <<faPosition, faSignal, faCalls>>
    /\ UNCHANGED otherThanFundingArb

SelectorNext ==
    \/ GridEvaluate
    \/ Select
    \/ FaRecordEntry
    \/ SelectorTime

(***************************************************************************)
(* Part X -- the stream client (websocket.go) driven by its own callers:   *)
(* one calls Subscribe, another calls Connect.  A step is a critical       *)
(* section of ws.mu or one blocking call.                                  *)
(***************************************************************************)
MaxSubCalls == 3

\* the (channel, symbols) pairs Subscribe is called with
DirectSubs == {TickerSub, TickerEth, TickerBoth, CandleSub}

\* Connect without the resubscribe loop of lines 156-158
CopyOf_Nothing(subs) == <<>>

\* Connect, lines 143-144: the copy of the stored subscriptions
CopyOf(subs) == subs

\* no call in progress
DirectInit ==
    /\ subPc = "idle"
    /\ subArg = TickerSub
    /\ subCalls = 0
    /\ connectPc = "idle"
    /\ connectSubs = <<>>
    /\ queued = {}

\* Subscribe, lines 165-175: the critical section that looks for an equal
\* subscription, stores the new one and reads isConnected
DirectSubscribe ==
    /\ subPc = "idle"
    /\ subCalls < MaxSubCalls
    /\ \E sub \in DirectSubs :
         /\ subArg' = sub
         /\ IF Stored(sub)
            THEN UNCHANGED <<subscriptions, subPc, queued>>
            ELSE /\ subscriptions' = Append(subscriptions, sub)
                 /\ subPc' = IF isConnected THEN "send" ELSE "idle"
                 /\ queued' = IF isConnected THEN queued ELSE queued \cup {sub}
    /\ subCalls' = subCalls + 1
    /\ UNCHANGED <<connectPc, connectSubs>>
    /\ UNCHANGED <<conn, dials, isConnected, reconnecting, started, stopChanCloses,
                   closeOnce, closedConns, dropped, sent, startPc, startIdx,
                   readerPc, readerConn, replaySubs, reconnectLoops, heartbeatPc,
                   closerPc, botStopCloses, stopOnce, stopperPc, isRunning,
                   mainLoopPc, regimeLoopPc, limiterStopped>>
    /\ UNCHANGED otherThanStreamAndDirect

\* Subscribe, lines 177-179: the frame is sent outside the lock
DirectSend ==
    /\ subPc = "send"
    /\ sent' = sendSubscribe(subArg)
    /\ subPc' = "idle"
    /\ UNCHANGED <<subArg, subCalls, connectPc, connectSubs, queued>>
    /\ UNCHANGED <<conn, dials, isConnected, reconnecting, started, subscriptions,
                   stopChanCloses, closeOnce, closedConns, dropped, startPc,
                   startIdx, readerPc, readerConn, replaySubs, reconnectLoops,
                   heartbeatPc, closerPc, botStopCloses, stopOnce, stopperPc,
                   isRunning, mainLoopPc, regimeLoopPc, limiterStopped>>
    /\ UNCHANGED otherThanStreamAndDirect

\* Connect, lines 104-154: the dial fails and Connect returns the error, or
\* the conn is installed, the subscriptions are copied under the lock and, on
\* the first Connect, the two goroutines are started
DirectConnect ==
    /\ connectPc = "idle"
    /\ dials < MaxDials
    /\ \E ok \in BOOLEAN :
          IF ok
          THEN /\ Connect_Install
               /\ connectSubs' = CopyOf(subscriptions)
               /\ readerPc' = IF ~started THEN "select" ELSE readerPc
               /\ heartbeatPc' = IF ~started THEN "run" ELSE heartbeatPc
               /\ connectPc' = "resubscribe"
          ELSE UNCHANGED <<conn, dials, isConnected, started, closedConns,
                           connectSubs, readerPc, heartbeatPc, connectPc>>
    /\ UNCHANGED <<subPc, subArg, subCalls, queued>>
    /\ UNCHANGED <<reconnecting, subscriptions, stopChanCloses, closeOnce, dropped,
                   sent, startPc, startIdx, readerConn, replaySubs, reconnectLoops,
                   closerPc, botStopCloses, stopOnce, stopperPc, isRunning,
                   mainLoopPc, regimeLoopPc, limiterStopped>>
    /\ UNCHANGED otherThanStreamAndDirect

\* Connect, lines 156-161: one iteration of the resubscribe loop, or its end
DirectResubscribe ==
    /\ connectPc = "resubscribe"
    /\ IF connectSubs # <<>>
       THEN /\ sent' = sendSubscribe(Head(connectSubs))
            /\ connectSubs' = Tail(connectSubs)
            /\ UNCHANGED connectPc
       ELSE /\ connectPc' = "idle"
            /\ UNCHANGED <<sent, connectSubs>>
    /\ UNCHANGED <<subPc, subArg, subCalls, queued>>
    /\ UNCHANGED <<conn, dials, isConnected, reconnecting, started, subscriptions,
                   stopChanCloses, closeOnce, closedConns, dropped, startPc,
                   startIdx, readerPc, readerConn, replaySubs, reconnectLoops,
                   heartbeatPc, closerPc, botStopCloses, stopOnce, stopperPc,
                   isRunning, mainLoopPc, regimeLoopPc, limiterStopped>>
    /\ UNCHANGED otherThanStreamAndDirect

DirectNext ==
    \/ DirectSubscribe
    \/ DirectSend
    \/ DirectConnect
    \/ DirectResubscribe

(***************************************************************************)
(* Part XI -- the candle history of the runtime (handleCandle).  The       *)
(* history is cut to its last MaxCandles bars, 500 in the source.          *)
(***************************************************************************)
MaxCandleOps == 4
MaxCandles == 3
MaxCandleTime == 5

NoCandleIn == [Time |-> 0, Close |-> 0]

\* delta.Candle: the opening time of the bar and its close so far
CandleUpdates == [Time : 1..MaxCandleTime, Close : {100, 101}]

\* Initialize, lines 397-402: the history loaded from the venue, oldest bar
\* first, or none
LoadedHistories ==
    { <<>>, <<[Time |-> 1, Close |-> 100], [Time |-> 2, Close |-> 100]>> }

\* lines 844-846: only the last MaxCandles bars are kept
KeepLast(cs) ==
    IF Len(cs) > MaxCandles THEN SubSeq(cs, Len(cs) - MaxCandles + 1, Len(cs)) ELSE cs

\* the mutant of handleCandle that appends every bar of another time
handleCandle_AppendOlder(cs, candle) ==
    IF Len(cs) > 0
    THEN IF candle.Time = cs[Len(cs)].Time
         THEN [cs EXCEPT ![Len(cs)] = candle]
         ELSE KeepLast(Append(cs, candle))
    ELSE Append(cs, candle)

\* handleCandle, lines 830-851
handleCandle(cs, candle) ==
    IF Len(cs) > 0
    THEN IF candle.Time = cs[Len(cs)].Time
         THEN [cs EXCEPT ![Len(cs)] = candle]
         ELSE IF candle.Time > cs[Len(cs)].Time
         THEN KeepLast(Append(cs, candle))
         ELSE cs
    ELSE Append(cs, candle)

CandlesInit ==
    /\ candles \in LoadedHistories
    /\ candleIn = NoCandleIn
    /\ candleOps = 0

\* a candle update arrives from the stream
HandleCandle ==
    /\ candleOps < MaxCandleOps
    /\ \E candle \in CandleUpdates :
         /\ candles' = handleCandle(candles, candle)
         /\ candleIn' = candle
    /\ candleOps' = candleOps + 1
    /\ UNCHANGED otherThanCandles

CandlesNext == HandleCandle

(***************************************************************************)
(* Part XII -- a backtest whose only strategy is funding arbitrage         *)
(* (cmd/backtest/main.go, case "funding"), on the engine of Part VI with   *)
(* a constant funding rate.                                                *)
(***************************************************************************)
MaxRunBars == 8
DayMinutes == 1440

\* minutes between one candle and the next: eight-hour bars
RunGaps == {480}

\* a funding rate of 0.02 % every eight hours, 21.9 % a year, loaded for the
\* whole run
ConstantFunding == << [Timestamp |-> 0, Rate |-> 2] >>

\* ComputeFeaturesWithFunding, src/unnamed/part_004 lines 83-88: the rate in
\* hundredths of a per cent, the annualized basis in per cent
BasisAnnualized(rate) == (rate * 3 * 365) \div 100

\* the Signal funding arbitrage builds around its Action (Analyze, lines
\* 61-95): no stop and no target
FundingSignal(action) ==
    [Action |-> action,
     Side |-> IF action \in {"buy", "sell"} THEN action ELSE "",
     StopLoss |-> 0]

\* processTimestamp, lines 232-235: buildMarketFeatures and
\* Manager.GetSignal with funding arbitrage as the only strategy; the
\* strategy's positions map is the one of Part VIII, and the engine never
\* calls RecordEntry or RecordExit
FundingArbSignals(ts, bars) ==
    [s \in BacktestSymbols |->
        IF bars[s] = NoCandle THEN FundingSignal("none")
        ELSE FundingSignal(
                 FundingArbitrageAnalyze(
                     BasisAnnualized(GetFundingAtTime(fundingRates, ts)),
                     faPosition, faNow))]

\* NewEngine and loadData, lines 107-141
FundingRunInit ==
    /\ processed = 0
    /\ prevTimestamp = NoTime
    /\ positions = [s \in BacktestSymbols |-> NoPosition]
    /\ pendingOrders = [s \in BacktestSymbols |-> NoPending]
    /\ fundingRates = ConstantFunding
    /\ lastBar = [s \in BacktestSymbols |-> NoCandle]
    /\ lastSignal = [s \in BacktestSymbols |-> "none"]
    /\ lastFill = [s \in BacktestSymbols |-> NoFill]
    /\ fundingRuns = 0
    /\ fundingPaid = [s \in BacktestSymbols |-> 0]

\* simulate, lines 156-160: one timestamp of the funding-only run
FundingRun ==
    /\ processed < MaxRunBars
    /\ \E ts \in IF prevTimestamp = NoTime THEN StartTimes
                 ELSE { prevTimestamp + g : g \in RunGaps } :
         \E bars \in BarsAt(ts) :
             ProcessTimestamp(ts, bars, FundingArbSignals(ts, bars))
    /\ UNCHANGED otherThanBacktest

FundingRunNext == FundingRun

(***************************************************************************)
(* Part XIII -- the price of an aggressive limit order (orders.go,          *)
(* PlaceAggressiveLimitOrder), computed for one book and one side.  The    *)
(* book's prices have at most four decimals, so that the offset price is   *)
(* exact.                                                                  *)
(***************************************************************************)
NoPrice == -1

\* the offset PlaceLimitOrderWithFallback passes, line 575: 0.01 %, here in
\* 10^-4 of the price
AggressiveOffset == 1

\* best asks: 1, 2, 3 and 4 dollars
BestAsks == {100000000, 200000000, 300000000, 400000000}

\* best ask minus best bid: crossed, locked, and a spread below, at and above
\* 0.01 % of the ask
Spreads == {-10000, 0, 10000, 20000, 30000, 40000, 50000, 1000000}

Bbas == {[BestBid |-> a - d, BestAsk |-> a] : a \in BestAsks, d \in Spreads}

\* tick sizes "0.001" and "0.0001"
TickSizes == {100000, 10000}

\* RoundToTickSizeWithDirection, lines 407-437
RoundToTickSizeWithDirection(price, tick, direction) ==
    IF direction = "down" THEN (price \div tick) * tick
    ELSE ((price + tick - 1) \div tick) * tick

\* the mutant of AggressiveLimitPrice that takes the lower of the two for a
\* buy and the higher for a sell
AggressiveLimitPrice_Passive(side, b) ==
    IF side = "buy"
    THEN LET p == MulDiv(b.BestAsk, 10000 - AggressiveOffset, 10000)
         IN  IF p > b.BestBid THEN b.BestBid ELSE p
    ELSE LET p == MulDiv(b.BestBid, 10000 + AggressiveOffset, 10000)
         IN  IF p < b.BestAsk THEN b.BestAsk ELSE p

\* PlaceAggressiveLimitOrder, lines 465-486: limitPrice
AggressiveLimitPrice(side, b) ==
    IF side = "buy"
    THEN LET p == MulDiv(b.BestAsk, 10000 - AggressiveOffset, 10000)
         IN  IF p < b.BestBid THEN b.BestBid ELSE p
    ELSE LET p == MulDiv(b.BestBid, 10000 + AggressiveOffset, 10000)
         IN  IF p > b.BestAsk THEN b.BestAsk ELSE p

\* a request about to be priced
PriceInit ==
    /\ bba \in Bbas
    /\ tickSize \in TickSizes
    /\ aggSide \in {"buy", "sell"}
    /\ aggLimit = NoPrice
    /\ aggPrice = NoPrice
    /\ aggErr = ""

\* PlaceAggressiveLimitOrder, lines 454-492, up to the call of PlaceOrder
PlaceAggressiveLimitOrder ==
    /\ aggLimit = NoPrice /\ aggErr = ""
    /\ aggLimit' = AggressiveLimitPrice(aggSide, bba)
    /\ aggPrice' = RoundToTickSizeWithDirection(aggLimit', tickSize,
                        IF aggSide = "buy" THEN "down" ELSE "up")
    /\ UNCHANGED <<bba, tickSize, aggSide, aggErr>>
    /\ UNCHANGED otherThanPrice

\* PlaceAggressiveLimitOrder, lines 455-463: the book or the product cannot
\* be fetched
PlaceAggressiveFails ==
    /\ aggLimit = NoPrice /\ aggErr = ""
    /\ aggErr' \in {"failed to get orderbook", "failed to get product"}
    /\ UNCHANGED <<bba, tickSize, aggSide, aggLimit, aggPrice>>
    /\ UNCHANGED otherThanPrice

PriceNext ==
    \/ PlaceAggressiveLimitOrder
    \/ PlaceAggressiveFails

(***************************************************************************)
(* Part XIV -- the trading loop of the runtime (part_002, mainLoop and      *)
(* tradingCycle) around the order execution of Part I: each cycle that     *)
(* reaches executeTradeForSymbol runs one PlaceLimitOrderWithFallback.      *)
(***************************************************************************)
MaxLoopCycles == 2

\* the OrderRequest executeTradeForSymbol builds, lines 700-711: a size and
\* the two bracket prices
LoopRequests ==
    { [Size |-> s,
       Bracket |-> [SL |-> "95.00", SLLimit |-> "", TP |-> "110.00", TPLimit |-> ""],
       ReduceOnly |-> FALSE] :
         s \in 1..MaxSize }

LoopInit ==
    /\ loopPc = "select"
    /\ loopCycles = 0
    /\ recorded = 0

\* mainLoop, lines 489-495, tradingCycle, lines 500-541, executeSignalForSymbol
\* and executeTradeForSymbol up to line 717: the ticker fires and the cycle
\* either returns early (trading paused, no signal, filtered, no balance, low
\* confidence, size 0) or calls PlaceLimitOrderWithFallback
LoopTick ==
    /\ loopPc = "select"
    /\ loopCycles < MaxLoopCycles
    /\ loopCycles' = loopCycles + 1
    /\ \/ /\ loopPc' = "select"
          /\ UNCHANGED execVars
       \/ /\ loopPc' = "executing"
          /\ req' \in LoopRequests
          /\ pc' = "start"
          /\ placeErr' = ""
          /\ vState' = "none"
          /\ vUnfilled' = 0
          /\ consecutiveErrors' = 0
          /\ failedLookups' = 0
          /\ lastOrder' = NoOrder
          /\ fillPolls' = 0
          /\ cancelPolls' = 0
          /\ waitErr' = ""
          /\ markets' = <<>>
          /\ result' = [order |-> NoOrder, err |-> ""]
          /\ cancelRequested' = FALSE
          /\ sawRejected' = FALSE
          /\ lastObs' = "none"
          /\ confirmDone' = FALSE
    /\ UNCHANGED recorded
    /\ UNCHANGED otherThanExecAndLoop

\* executeTradeForSymbol, lines 717-727: PlaceLimitOrderWithFallback has
\* returned; an error is logged, an order is recorded as a trade, and the
\* cycle returns to mainLoop's select
LoopReturn ==
    /\ loopPc = "executing"
    /\ pc = "done"
    /\ recorded' = IF result.err # "" THEN recorded ELSE recorded + 1
    /\ loopPc' = "select"
    /\ UNCHANGED <<execVars, loopCycles>>
    /\ UNCHANGED otherThanExecAndLoop

\* mainLoop, lines 491-492: stopChan is closed
LoopStop ==
    /\ loopPc = "select"
    /\ loopPc' = "returned"
    /\ UNCHANGED <<execVars, loopCycles, recorded>>
    /\ UNCHANGED otherThanExecAndLoop

LoopNext ==
    \/ LoopTick
    \/ LoopReturn
    \/ LoopStop
    \/ PlaceLimit
    \/ VenueStep
    \/ WaitPoll
    \/ WaitFinal
    \/ CancelLimit
    \/ ConfirmPoll
    \/ ConfirmFinal

(***************************************************************************)
(* Part XV -- the risk manager's lock (manager.go).  CanTrade and           *)
(* UpdateBalance are followed statement by statement for two goroutines,   *)
(* on the state of Part II; sync.RWMutex admits one writer or any number   *)
(* of readers.                                                             *)
(***************************************************************************)
MaxLockCalls == 3

RiskCallers == {"loop", "aux"}

\* balances the wallet reports: level, a daily loss of 6 %, a loss of 10 %
LockBalances == {100, 94, 90}

NoLocal == [balance |-> 0, seq |-> 0, today |-> 0, latch |-> FALSE, trip |-> FALSE]
NoObs == [latch |-> "none", flagBy |-> 0, clockBy |-> 0, ok |-> TRUE, done |-> FALSE]

\* sync.RWMutex.Lock can return
CanLock == rmu.writer = "none" /\ rmu.readers = {}

\* sync.RWMutex.RLock can return
CanRLock == rmu.writer = "none"

LockInit ==
    /\ rmu = [writer |-> "none", readers |-> {}]
    /\ callPc = [p \in RiskCallers |-> "idle"]
    /\ ubLocal = NoLocal
    /\ ubSeq = 0
    /\ written = [dailyFlag |-> 0, dailyClock |-> 0, brokenFlag |-> 0, brokenClock |-> 0]
    /\ obs = [p \in RiskCallers |-> NoObs]

\* UpdateBalance, lines 49-51: the write lock is taken
UbLock ==
    /\ ubSeq < MaxLockCalls
    /\ CanLock
    /\ \E p \in RiskCallers, balance \in LockBalances :
         /\ callPc[p] = "idle"
         /\ rmu' = [rmu EXCEPT !.writer = p]
         /\ callPc' = [callPc EXCEPT ![p] = "ub_daily"]
         /\ ubLocal' = [NoLocal EXCEPT !.balance = balance, !.seq = ubSeq + 1]
    /\ ubSeq' = ubSeq + 1
    /\ UNCHANGED <<riskVars, written, obs>>
    /\ UNCHANGED otherThanRiskAndLock

\* UpdateBalance, lines 53-78: the day, the balance, the daily P&L and the
\* daily-loss flag
UbDaily ==
    /\ \E p \in RiskCallers :
         /\ callPc[p] = "ub_daily"
         /\ callPc' = [callPc EXCEPT ![p] = "ub_breaker"]
    /\ LET balance == ubLocal.balance
           today  == Truncate(now)
           newDay == today > currentDay
           start0 == IF newDay THEN balance ELSE dailyStartBalance
           pnl0   == IF newDay THEN Pct(0, 1) ELSE dailyPnL
           hit0   == IF newDay THEN FALSE ELSE isDailyLimitHit
           start1 == IF start0 = 0 THEN balance ELSE start0
           pnl1   == IF start1 > 0 THEN Pct((balance - start1) * 100, start1) ELSE pnl0
           latch  == PctLeq(pnl1, dailyLossLimit) /\ ~hit0
       IN  /\ currentDay' = IF newDay THEN today ELSE currentDay
           /\ dailyStartBalance' = start1
           /\ currentBalance' = balance
           /\ dailyPnL' = pnl1
           /\ isDailyLimitHit' = (hit0 \/ latch)
           /\ ubLocal' = [ubLocal EXCEPT !.today = today, !.latch = latch]
           /\ written' = IF latch THEN [written EXCEPT !.dailyFlag = ubLocal.seq]
                         ELSE written
    /\ UNCHANGED <<now, peakBalance, currentDrawdown, isCircuitBroken, circuitBrokenAt,
                   dailyLimitResetTime, canTrade, lastLossAt, rmu, ubSeq, obs>>
    /\ UNCHANGED otherThanRiskAndLock

\* UpdateBalance, lines 79-96: the daily reset time, the peak, the drawdown
\* and the breaker's flag
UbBreaker ==
    /\ \E p \in RiskCallers :
         /\ callPc[p] = "ub_breaker"
         /\ callPc' = [callPc EXCEPT ![p] = "ub_clock"]
    /\ LET balance == ubLocal.balance
           peak1 == IF balance > peakBalance THEN balance ELSE peakBalance
           dd1   == IF peak1 > 0 THEN Pct((peak1 - balance) * 100, peak1)
                    ELSE currentDrawdown
           trip  == PctGeq(dd1, MaxDrawdownPct) /\ ~isCircuitBroken
       IN  /\ dailyLimitResetTime' = IF ubLocal.latch
                                     THEN DailyLimitResetTime(ubLocal.today)
                                     ELSE dailyLimitResetTime
           /\ peakBalance' = peak1
           /\ currentDrawdown' = dd1
           /\ isCircuitBroken' = (isCircuitBroken \/ trip)
           /\ ubLocal' = [ubLocal EXCEPT !.trip = trip]
           /\ written' = [written EXCEPT
                            !.dailyClock = IF ubLocal.latch THEN ubLocal.seq ELSE @,
                            !.brokenFlag = IF trip THEN ubLocal.seq ELSE @]
    /\ UNCHANGED <<now, currentBalance, dailyStartBalance, dailyPnL, currentDay,
                   circuitBrokenAt, isDailyLimitHit, canTrade, lastLossAt, rmu, ubSeq,
                   obs>>
    /\ UNCHANGED otherThanRiskAndLock

\* UpdateBalance, lines 97-101: the breaker's clock, and the deferred Unlock
UbClock ==
    /\ \E p \in RiskCallers :
         /\ callPc[p] = "ub_clock"
         /\ callPc' = [callPc EXCEPT ![p] = "idle"]
    /\ circuitBrokenAt' = IF ubLocal.trip THEN now ELSE circuitBrokenAt
    /\ written' = IF ubLocal.trip THEN [written EXCEPT !.brokenClock = ubLocal.seq]
                  ELSE written
    /\ rmu' = [rmu EXCEPT !.writer = "none"]
    /\ ubLocal' = NoLocal
    /\ UNCHANGED <<now, peakBalance, currentBalance, currentDrawdown, dailyStartBalance,
                   dailyPnL, currentDay, isCircuitBroken, isDailyLimitHit,
                   dailyLimitResetTime, canTrade, lastLossAt, ubSeq, obs>>
    /\ UNCHANGED otherThanRiskAndLock

\* CanTrade, lines 104-106: the read lock is taken
CtLock ==
    /\ CanRLock
    /\ \E p \in RiskCallers :
         /\ callPc[p] = "idle"
         /\ rmu' = [rmu EXCEPT !.readers = @ \cup {p}]
         /\ callPc' = [callPc EXCEPT ![p] = "ct_flag"]
         /\ obs' = [obs EXCEPT ![p] = NoObs]
    /\ UNCHANGED <<riskVars, ubLocal, ubSeq, written>>
    /\ UNCHANGED otherThanRiskAndLock

\* CanTrade, lines 109 and 118: the flags are read; with neither set the call
\* returns true (line 128)
CtFlag ==
    /\ \E p \in RiskCallers :
         /\ callPc[p] = "ct_flag"
         /\ IF isDailyLimitHit
            THEN /\ obs' = [obs EXCEPT ![p].latch = "daily",
                                       ![p].flagBy = written.dailyFlag]
                 /\ callPc' = [callPc EXCEPT ![p] = "ct_clock"]
                 /\ UNCHANGED rmu
            ELSE IF isCircuitBroken
            THEN /\ obs' = [obs EXCEPT ![p].latch = "breaker",
                                       ![p].flagBy = written.brokenFlag]
                 /\ callPc' = [callPc EXCEPT ![p] = "ct_clock"]
                 /\ UNCHANGED rmu
            ELSE /\ obs' = [obs EXCEPT ![p].done = TRUE]
                 /\ callPc' = [callPc EXCEPT ![p] = "idle"]
                 /\ rmu' = [rmu EXCEPT !.readers = @ \ {p}]
    /\ UNCHANGED <<riskVars, ubLocal, ubSeq, written>>
    /\ UNCHANGED otherThanRiskAndLock

\* CanTrade, lines 110-116 and 119-125: the clock of the latch seen is read
\* and compared, the call returns and the deferred RUnlock runs
CtClock ==
    /\ \E p \in RiskCallers :
         /\ callPc[p] = "ct_clock"
         /\ obs' = [obs EXCEPT
                      ![p].clockBy = IF obs[p].latch = "daily" THEN written.dailyClock
                                     ELSE written.brokenClock,
                      ![p].ok = IF obs[p].latch = "daily" THEN now > dailyLimitResetTime
                                ELSE now - circuitBrokenAt > Day,
                      ![p].done = TRUE]
         /\ callPc' = [callPc EXCEPT ![p] = "idle"]
         /\ rmu' = [rmu EXCEPT !.readers = @ \ {p}]
    /\ UNCHANGED <<riskVars, ubLocal, ubSeq, written>>
    /\ UNCHANGED otherThanRiskAndLock

\* time passes, in or between the calls
LockTick ==
    /\ now < MaxTime
    /\ now' = now + 1
    /\ UNCHANGED <<peakBalance, currentBalance, currentDrawdown, dailyStartBalance,
                   dailyPnL, currentDay, isCircuitBroken, circuitBrokenAt,
                   isDailyLimitHit, dailyLimitResetTime, canTrade, lastLossAt, lockVars>>
    /\ UNCHANGED otherThanRiskAndLock

LockNext ==
    \/ UbLock
    \/ UbDaily
    \/ UbBreaker
    \/ UbClock
    \/ CtLock
    \/ CtFlag
    \/ CtClock
    \/ LockTick

(***************************************************************************)
(* Part XVI -- the trading cycle's use of the risk manager (part_002,       *)
(* tradingCycle and executeSignalForSymbol) on the state of Part II.       *)
(***************************************************************************)
MaxEntryCycles == 3

NoEntry == [submitted |-> FALSE, latchActive |-> FALSE, cycle |-> 0]

\* a latch of the risk manager is set and has not run out
LatchActive ==
    \/ isDailyLimitHit /\ ~(now > dailyLimitResetTime)
    \/ isCircuitBroken /\ ~(now - circuitBrokenAt > Day)

CycleInit ==
    /\ cyclePc = "ticker"
    /\ cycleNo = 0
    /\ lastEntry = NoEntry

\* tradingCycle, lines 500-508: CanTrade is asked at the top of the cycle
CycleCanTrade ==
    /\ cyclePc = "ticker"
    /\ cycleNo < MaxEntryCycles
    /\ cycleNo' = cycleNo + 1
    /\ cyclePc' = IF CanTradeResult.ok THEN "signal" ELSE "ticker"
    /\ UNCHANGED <<riskVars, lastEntry>>
    /\ UNCHANGED otherThanRiskAndCycle

\* tradingCycle, lines 510-541, and executeSignalForSymbol, lines 634-645:
\* without a signal the cycle returns; with one the balance is fetched and
\* passed to UpdateBalance
CycleUpdateBalance ==
    /\ cyclePc = "signal"
    /\ \/ /\ cyclePc' = "ticker"
          /\ UNCHANGED riskVars
       \/ /\ cyclePc' = "trade"
          /\ \E balance \in Balances : UpdateBalance(balance)
    /\ UNCHANGED <<cycleNo, lastEntry>>
    /\ UNCHANGED otherThanRiskAndCycle

\* executeSignalForSymbol, lines 647-666, and executeTradeForSymbol, lines
\* 670-717: a buy or sell signal of enough confidence is sized and its entry
\* order submitted; any other returns
CycleTrade ==
    /\ cyclePc = "trade"
    /\ cyclePc' = "ticker"
    /\ \/ UNCHANGED lastEntry
       \/ lastEntry' = [submitted |-> TRUE, latchActive |-> LatchActive,
                        cycle |-> cycleNo]
    /\ UNCHANGED <<riskVars, cycleNo>>
    /\ UNCHANGED otherThanRiskAndCycle

\* time passes between two cycles
CycleTick ==
    /\ cyclePc = "ticker"
    /\ now < MaxTime
    /\ now' = now + 1
    /\ UNCHANGED <<peakBalance, currentBalance, currentDrawdown, dailyStartBalance,
                   dailyPnL, currentDay, isCircuitBroken, circuitBrokenAt,
                   isDailyLimitHit, dailyLimitResetTime, canTrade, lastLossAt, cycleVars>>
    /\ UNCHANGED otherThanRiskAndCycle

CycleNext ==
    \/ CycleCanTrade
    \/ CycleUpdateBalance
    \/ CycleTrade
    \/ CycleTick

(***************************************************************************)
(* Part XVII -- the transmissions of concurrent doRequest calls            *)
(* (wallet.go), on the limiter of Part IV: a call receives one tick, sends, *)
(* and on a transport error, a 429 or a 5xx sleeps and sends again.  The   *)
(* first transmission of a call happens when its tick is received, so the  *)
(* times in issued are also the times of the first transmissions.          *)
(***************************************************************************)
SendsInit ==
    /\ sendAttempt = [c \in Callers |-> 0]
    /\ wake = [c \in Callers |-> 0]
    /\ resent = {}

\* doRequest, lines 200-203 and 213-224: time.Sleep(attempt+1 seconds); a
\* sleep that ends after the last instant of the clock is kept as one that
\* ends after it
SleepUntil(n) ==
    LET end == clock + (n + 1) * Second
    IN  IF end > MaxClock THEN MaxClock + 1 ELSE end

\* doRequest, lines 158-245: the tick is received and the first attempt is
\* sent; the call returns (a response that is not retried) or sleeps (a
\* transport error, a 429 without Retry-After, a 5xx)
SendFirst(c) ==
    /\ callerPc[c] = "limiter"
    /\ limiterC
    /\ limiterC' = FALSE
    /\ issued' = issued \cup {clock}
    /\ \/ /\ callerPc' = [callerPc EXCEPT ![c] = "idle"]
          /\ UNCHANGED <<sendAttempt, wake>>
       \/ /\ callerPc' = [callerPc EXCEPT ![c] = "sleeping"]
          /\ sendAttempt' = [sendAttempt EXCEPT ![c] = 0]
          /\ wake' = [wake EXCEPT ![c] = SleepUntil(0)]
    /\ UNCHANGED <<clock, reqPc, attempt, tries, reqResult, resent>>
    /\ UNCHANGED otherThanClientAndSends

\* doRequest, lines 184-247: the sleep is over and the loop goes round: the
\* next attempt is sent without reading limiter.C, or after the third
\* attempt the call returns its last error; attempt and the sleep are locals
\* of the call and end with it
Resend(c) ==
    /\ callerPc[c] = "sleeping"
    /\ clock >= wake[c]
    /\ IF sendAttempt[c] + 1 < maxAttempts
       THEN /\ resent' = resent \cup {<<c, clock>>}
            /\ \/ /\ callerPc' = [callerPc EXCEPT ![c] = "idle"]
                  /\ sendAttempt' = [sendAttempt EXCEPT ![c] = 0]
                  /\ wake' = [wake EXCEPT ![c] = 0]
               \/ /\ callerPc' = callerPc
                  /\ sendAttempt' = [sendAttempt EXCEPT ![c] = @ + 1]
                  /\ wake' = [wake EXCEPT ![c] = SleepUntil(sendAttempt[c] + 1)]
       ELSE /\ callerPc' = [callerPc EXCEPT ![c] = "idle"]
            /\ sendAttempt' = [sendAttempt EXCEPT ![c] = 0]
            /\ wake' = [wake EXCEPT ![c] = 0]
            /\ UNCHANGED resent
    /\ UNCHANGED <<clock, limiterC, issued, reqPc, attempt, tries, reqResult>>
    /\ UNCHANGED otherThanClientAndSends

SendsNext ==
    \/ Advance
    \/ \E c \in Callers : Call(c)
    \/ \E c \in Callers : SendFirst(c)
    \/ \E c \in Callers : Resend(c)

(***************************************************************************)
(* Specifications: each part runs with the other part at rest.             *)
(***************************************************************************)
ExecAtRest == pc = "done" /\ req = [Size |-> 1, Bracket |-> NoBracket, ReduceOnly |-> FALSE]
    /\ placeErr = ""
    /\ vState = "none" /\ vUnfilled = 0 /\ consecutiveErrors = 0 /\ failedLookups = 0
    /\ lastOrder = NoOrder
    /\ fillPolls = 0 /\ cancelPolls = 0 /\ waitErr = "" /\ markets = <<>>
    /\ result = [order |-> NoOrder, err |-> ""] /\ cancelRequested = FALSE
    /\ sawRejected = FALSE /\ lastObs = "none" /\ confirmDone = FALSE

ExecNext ==
    \/ PlaceLimit
    \/ VenueStep
    \/ WaitPoll
    \/ WaitFinal
    \/ CancelLimit
    \/ ConfirmPoll
    \/ ConfirmFinal

\* the stream client and the runtime before Start, with nobody to start them
StreamAtRest == StreamInit

\* the venue client with no request made
ClientAtRest == ClientInit

\* no call of executeTradeForSymbol in progress
SizingAtRest ==
    /\ tradePc = "idle"
    /\ signal = [balance |-> 1000, price |-> 100, stopLossPct |-> 0,
                 regime |-> "ranging", contractValue |-> 1000]
    /\ size = 0
    /\ tradeOrder = 0
    /\ signalSide = "buy"
    /\ venueSize = 0
    /\ cycles = MaxCycles

\* no backtest running
BacktestAtRest ==
    /\ processed = MaxBars
    /\ prevTimestamp = NoTime
    /\ positions = [s \in BacktestSymbols |-> NoPosition]
    /\ pendingOrders = [s \in BacktestSymbols |-> NoPending]
    /\ fundingRates = << >>
    /\ lastBar = [s \in BacktestSymbols |-> NoCandle]
    /\ lastSignal = [s \in BacktestSymbols |-> "none"]
    /\ lastFill = [s \in BacktestSymbols |-> NoFill]
    /\ fundingRuns = 0
    /\ fundingPaid = [s \in BacktestSymbols |-> 0]

\* no books kept
AccountAtRest ==
    /\ equity = InitialCapital
    /\ usedMargin = 0
    /\ book = [s \in BookSymbols |-> NoBookPosition]
    /\ trades = 0
    /\ lastTrade = NoTrade
    /\ lastOpen = NoOpen
    /\ peakEquity = InitialCapital
    /\ lastPoint = NoPoint
    /\ bookOps = MaxBookOps

\* the strategy is not asked
FundingArbAtRest ==
    /\ faPosition = NoFundingPosition
    /\ faNow = 0
    /\ faSignal = NoFaSignal
    /\ faCalls = MaxFaCalls

\* the selector is not asked
SelectorAtRest ==
    /\ gridCfg = DefaultGridConfig
    /\ gridActive = FALSE
    /\ gridCenter = 0
    /\ gridLevels = <<0, 0>>
    /\ features = NoFeatures
    /\ gridSignal = NotConsulted
    /\ selected = NoSelection
    /\ evaluated = ""
    /\ selCalls = MaxSelCalls

\* nobody calls the stream client directly
DirectAtRest ==
    /\ subPc = "idle"
    /\ subArg = TickerSub
    /\ subCalls = MaxSubCalls
    /\ connectPc = "idle"
    /\ connectSubs = <<>>
    /\ queued = {}

\* no candle update arrives
CandlesAtRest ==
    /\ candles = <<>>
    /\ candleIn = NoCandleIn
    /\ candleOps = MaxCandleOps

\* no order is priced
PriceAtRest ==
    /\ bba = [BestBid |-> 0, BestAsk |-> 0]
    /\ tickSize = 0
    /\ aggSide = ""
    /\ aggLimit = NoPrice
    /\ aggPrice = NoPrice
    /\ aggErr = ""

\* the trading loop is not running
LoopAtRest ==
    /\ loopPc = "returned"
    /\ loopCycles = MaxLoopCycles
    /\ recorded = 0

\* nobody calls the risk manager
LockAtRest ==
    /\ rmu = [writer |-> "none", readers |-> {}]
    /\ callPc = [p \in RiskCallers |-> "idle"]
    /\ ubLocal = NoLocal
    /\ ubSeq = MaxLockCalls
    /\ written = [dailyFlag |-> 0, dailyClock |-> 0, brokenFlag |-> 0, brokenClock |-> 0]
    /\ obs = [p \in RiskCallers |-> NoObs]

\* no trading cycle runs
CycleAtRest ==
    /\ cyclePc = "ticker"
    /\ cycleNo = MaxEntryCycles
    /\ lastEntry = NoEntry

\* no request is re-sent
SendsAtRest == SendsInit

InitExec ==
    ExecInit /\ RiskInit /\ StreamAtRest /\ ClientAtRest /\ SizingAtRest /\ BacktestAtRest
    /\ AccountAtRest
    /\ FundingArbAtRest
    /\ SelectorAtRest
    /\ DirectAtRest
    /\ CandlesAtRest
    /\ PriceAtRest
    /\ LoopAtRest
    /\ LockAtRest
    /\ CycleAtRest
    /\ SendsAtRest

SpecExec == InitExec /\ [][ExecNext]_vars

InitRisk ==
    RiskInit /\ ExecAtRest /\ StreamAtRest /\ ClientAtRest /\ SizingAtRest
    /\ BacktestAtRest
    /\ AccountAtRest
    /\ FundingArbAtRest
    /\ SelectorAtRest
    /\ DirectAtRest
    /\ CandlesAtRest
    /\ PriceAtRest
    /\ LoopAtRest
    /\ LockAtRest
    /\ CycleAtRest
    /\ SendsAtRest

SpecRisk == InitRisk /\ [][RiskNext]_vars

InitStream ==
    StreamInit /\ ExecAtRest /\ RiskInit /\ ClientAtRest /\ SizingAtRest
    /\ BacktestAtRest
    /\ AccountAtRest
    /\ FundingArbAtRest
    /\ SelectorAtRest
    /\ DirectAtRest
    /\ CandlesAtRest
    /\ PriceAtRest
    /\ LoopAtRest
    /\ LockAtRest
    /\ CycleAtRest
    /\ SendsAtRest

SpecStream == InitStream /\ [][StreamNext]_vars

\* readMessages with reconnect and Connect: the goroutine takes its next step
\* (a message arriving is up to the venue)
ReaderStep ==
    \/ ReaderSelect
    \/ ReaderReadError
    \/ ReconnectSelect
    \/ ReconnectConnect
    \/ ReconnectReplay
    \/ ReconnectDone

\* a call of Close or Stop that has begun goes on to its end
ShutdownStep ==
    \/ \E k \in Closers : CloseLocked(k)
    \/ \E s \in Stoppers : StopCloseStream(s)
    \/ \E s \in Stoppers : StopFinish(s)

\* Every goroutine is scheduled again and again, and every call in a ticker
\* case returns.  A select with the stop case and the ticker case both ready
\* picks one of them at random, so the stop case is not passed over for ever.
\* The steps named here change streamVars and nothing else, so a step that
\* changes vars is a step that changes streamVars.
StreamFairness ==
    /\ WF_streamVars(ReaderStep)
    /\ WF_streamVars(ShutdownStep)
    /\ WF_streamVars(HeartbeatTick)
    /\ WF_streamVars(MainLoopTick)
    /\ WF_streamVars(RegimeLoopTick)
    /\ SF_streamVars(HeartbeatExit)
    /\ SF_streamVars(MainLoopExit)
    /\ SF_streamVars(RegimeLoopExit)

SpecStreamFair == SpecStream /\ StreamFairness

InitClient ==
    ClientInit /\ ExecAtRest /\ RiskInit /\ StreamAtRest /\ SizingAtRest
    /\ BacktestAtRest
    /\ AccountAtRest
    /\ FundingArbAtRest
    /\ SelectorAtRest
    /\ DirectAtRest
    /\ CandlesAtRest
    /\ PriceAtRest
    /\ LoopAtRest
    /\ LockAtRest
    /\ CycleAtRest
    /\ SendsAtRest

SpecLimiter == InitClient /\ [][LimiterNext]_vars

SpecRequest == InitClient /\ [][RequestNext]_vars

InitSizing ==
    SizingInit /\ ExecAtRest /\ RiskInit /\ StreamAtRest /\ ClientAtRest
    /\ BacktestAtRest
    /\ AccountAtRest
    /\ FundingArbAtRest
    /\ SelectorAtRest
    /\ DirectAtRest
    /\ CandlesAtRest
    /\ PriceAtRest
    /\ LoopAtRest
    /\ LockAtRest
    /\ CycleAtRest
    /\ SendsAtRest

SpecSizing == InitSizing /\ [][SizingNext]_vars

SpecEntries == InitSizing /\ [][EntriesNext]_vars

InitBacktest ==
    BacktestInit /\ ExecAtRest /\ RiskInit /\ StreamAtRest /\ ClientAtRest /\ SizingAtRest
    /\ AccountAtRest
    /\ FundingArbAtRest
    /\ SelectorAtRest
    /\ DirectAtRest
    /\ CandlesAtRest
    /\ PriceAtRest
    /\ LoopAtRest
    /\ LockAtRest
    /\ CycleAtRest
    /\ SendsAtRest

SpecBacktest == InitBacktest /\ [][BacktestNext]_vars

InitAccount ==
    AccountInit /\ ExecAtRest /\ RiskInit /\ StreamAtRest /\ ClientAtRest /\ SizingAtRest
    /\ BacktestAtRest
    /\ FundingArbAtRest
    /\ SelectorAtRest
    /\ DirectAtRest
    /\ CandlesAtRest
    /\ PriceAtRest
    /\ LoopAtRest
    /\ LockAtRest
    /\ CycleAtRest
    /\ SendsAtRest

SpecAccount == InitAccount /\ [][AccountNext]_vars

InitFundingArb ==
    FundingArbInit /\ ExecAtRest /\ RiskInit /\ StreamAtRest /\ ClientAtRest /\ SizingAtRest
    /\ BacktestAtRest /\ AccountAtRest
    /\ SelectorAtRest
    /\ DirectAtRest
    /\ CandlesAtRest
    /\ PriceAtRest
    /\ LoopAtRest
    /\ LockAtRest
    /\ CycleAtRest
    /\ SendsAtRest

SpecFundingArb == InitFundingArb /\ [][FundingArbNext]_vars

\* the selector's funding arbitrage strategy is the one of Part VIII; its
\* caller records one position
InitSelector ==
    SelectorInit /\ ExecAtRest /\ RiskInit /\ StreamAtRest /\ ClientAtRest /\ SizingAtRest
    /\ BacktestAtRest /\ AccountAtRest
    /\ faPosition = NoFundingPosition /\ faNow = 0 /\ faSignal = NoFaSignal
    /\ faCalls = MaxFaCalls - 1
    /\ DirectAtRest
    /\ CandlesAtRest
    /\ PriceAtRest
    /\ LoopAtRest
    /\ LockAtRest
    /\ CycleAtRest
    /\ SendsAtRest

SpecSelector == InitSelector /\ [][SelectorNext]_vars

InitDirect ==
    DirectInit /\ StreamInit /\ ExecAtRest /\ RiskInit /\ ClientAtRest /\ SizingAtRest
    /\ BacktestAtRest /\ AccountAtRest /\ FundingArbAtRest /\ SelectorAtRest
    /\ CandlesAtRest
    /\ PriceAtRest
    /\ LoopAtRest
    /\ LockAtRest
    /\ CycleAtRest
    /\ SendsAtRest

SpecDirect == InitDirect /\ [][DirectNext]_vars

InitCandles ==
    CandlesInit /\ ExecAtRest /\ RiskInit /\ StreamAtRest /\ ClientAtRest /\ SizingAtRest
    /\ BacktestAtRest /\ AccountAtRest /\ FundingArbAtRest /\ SelectorAtRest
    /\ DirectAtRest
    /\ PriceAtRest
    /\ LoopAtRest
    /\ LockAtRest
    /\ CycleAtRest
    /\ SendsAtRest

SpecCandles == InitCandles /\ [][CandlesNext]_vars

\* the strategy is freshly built: no position recorded
InitFundingRun ==
    FundingRunInit /\ ExecAtRest /\ RiskInit /\ StreamAtRest /\ ClientAtRest /\ SizingAtRest
    /\ AccountAtRest /\ FundingArbAtRest /\ SelectorAtRest /\ DirectAtRest
    /\ CandlesAtRest
    /\ PriceAtRest
    /\ LoopAtRest
    /\ LockAtRest
    /\ CycleAtRest
    /\ SendsAtRest

SpecFundingRun == InitFundingRun /\ [][FundingRunNext]_vars

InitPrice ==
    PriceInit /\ ExecAtRest /\ RiskInit /\ StreamAtRest /\ ClientAtRest /\ SizingAtRest
    /\ BacktestAtRest /\ AccountAtRest /\ FundingArbAtRest /\ SelectorAtRest
    /\ DirectAtRest /\ CandlesAtRest
    /\ LoopAtRest
    /\ LockAtRest
    /\ CycleAtRest
    /\ SendsAtRest

SpecPrice == InitPrice /\ [][PriceNext]_vars

InitLoop ==
    LoopInit /\ ExecAtRest /\ RiskInit /\ StreamAtRest /\ ClientAtRest /\ SizingAtRest
    /\ BacktestAtRest /\ AccountAtRest /\ FundingArbAtRest /\ SelectorAtRest
    /\ DirectAtRest /\ CandlesAtRest /\ PriceAtRest
    /\ LockAtRest
    /\ CycleAtRest
    /\ SendsAtRest

SpecLoop == InitLoop /\ [][LoopNext]_vars

\* the ticker keeps firing and the calls of the client return; the venue and
\* whoever stops the bot owe nothing
SpecLoopFair ==
    /\ SpecLoop
    /\ WF_vars(LoopTick) /\ WF_vars(LoopReturn)
    /\ WF_vars(PlaceLimit) /\ WF_vars(WaitPoll) /\ WF_vars(WaitFinal)
    /\ WF_vars(CancelLimit) /\ WF_vars(ConfirmPoll) /\ WF_vars(ConfirmFinal)

InitLock ==
    LockInit /\ ExecAtRest /\ RiskInit /\ StreamAtRest /\ ClientAtRest /\ SizingAtRest
    /\ BacktestAtRest /\ AccountAtRest /\ FundingArbAtRest /\ SelectorAtRest
    /\ DirectAtRest /\ CandlesAtRest /\ PriceAtRest /\ LoopAtRest
    /\ CycleAtRest
    /\ SendsAtRest

SpecLock == InitLock /\ [][LockNext]_vars

InitCycle ==
    CycleInit /\ ExecAtRest /\ RiskInit /\ StreamAtRest /\ ClientAtRest /\ SizingAtRest
    /\ BacktestAtRest /\ AccountAtRest /\ FundingArbAtRest /\ SelectorAtRest
    /\ DirectAtRest /\ CandlesAtRest /\ PriceAtRest /\ LoopAtRest /\ LockAtRest
    /\ SendsAtRest

SpecCycle == InitCycle /\ [][CycleNext]_vars

InitSends ==
    SendsInit /\ ClientInit /\ ExecAtRest /\ RiskInit /\ StreamAtRest /\ SizingAtRest
    /\ BacktestAtRest /\ AccountAtRest /\ FundingArbAtRest /\ SelectorAtRest
    /\ DirectAtRest /\ CandlesAtRest /\ PriceAtRest /\ LoopAtRest /\ LockAtRest
    /\ CycleAtRest

SpecSends == InitSends /\ [][SendsNext]_vars

(***************************************************************************)
(* Claims about order execution (checked under SpecExec).                  *)
(***************************************************************************)
\* the limit order exists at the venue
LimitPlaced == vState # "none"

\* contracts filled on the limit order
LimitFilled == IF LimitPlaced THEN req.Size - vUnfilled ELSE 0

\* C1: whenever a fill poll of the limit order (in the loop or in the final
\* check after the deadline) returned the order in state "rejected", the call
\* returns the typed OrderRejected error and no market order was submitted.
C1_RejectedReturnsOrderRejected ==
    (pc = "done" /\ sawRejected)
        => (result = [order |-> NoOrder, err |-> "OrderRejected"] /\ markets = <<>>)

\* C2: every fallback market order submitted after the limit order filled at
\* least one contract carries no bracket SL/TP price, and every one submitted
\* with nothing filled carries the original bracket prices.
C2_FallbackBracketRule ==
    \A i \in 1..Len(markets) :
        IF LimitFilled > 0
        THEN markets[i].Bracket.SL = "" /\ markets[i].Bracket.TP = ""
        ELSE /\ markets[i].Bracket.SL = req.Bracket.SL
             /\ markets[i].Bracket.TP = req.Bracket.TP

\* C3: the contracts filled on the limit order plus the size of the fallback
\* market order never exceed the requested size.
C3_FallbackWithinRequestedSize ==
    \A i \in 1..Len(markets) : LimitFilled + markets[i].Size <= req.Size

\* C4: if a status poll made after the cancel request shows the limit order
\* filled, the call returns that order without error and no market order is
\* submitted.
C4_FilledAfterCancelIsReturned ==
    (cancelRequested /\ lastObs = "filled")
        => /\ pc = "done"
           /\ result = [order |-> [ID |-> 1, State |-> "filled", Size |-> req.Size,
                                    UnfilledSize |-> 0],
                         err |-> ""]
           /\ markets = <<>>

C4_Witness == pc = "done" /\ cancelRequested /\ lastObs = "filled" /\ cancelPolls > 0

\* C5: if the cancel confirmation ends without having seen the order filled
\* or cancelled (it is still active or in another state after the bound, or
\* the last lookup failed), no market order is submitted and the call returns
\* an error and no order.
C5_IndeterminateRefusesReplacement ==
    (confirmDone /\ lastObs \notin {"filled", "cancelled"})
        => /\ pc = "done"
           /\ markets = <<>>
           /\ result.order = NoOrder
           /\ result.err \in {"cannot safely replace order",
                               "cannot safely replace order after timeout"}

C5_Witness ==
    confirmDone /\ lastObs \in ActiveStates /\ vState \in ActiveStates /\ cancelPolls > 0

\* C6: once the limit order exists, a market order is submitted only after
\* the cancel was requested and a later status poll showed the order
\* cancelled; the order is then cancelled at the venue, not open, and at most
\* one market order goes out.
C6_MarketOnlyAfterConfirmedCancel ==
    (LimitPlaced /\ markets # <<>>)
        => /\ cancelRequested
           /\ confirmDone
           /\ lastObs = "cancelled"
           /\ vState = "cancelled"
           /\ Len(markets) = 1

C6_Witness == LimitPlaced /\ markets # <<>> /\ waitErr # ""

\* C7: if the venue rejects the limit order when it is placed, no market
\* order is submitted.
C7_PlacementRejectionNoFallback ==
    placeErr = "venue rejected" => markets = <<>>

(***************************************************************************)
(* Claims about the risk manager (checked under SpecRisk).                 *)
(***************************************************************************)
\* C8: a CanTrade call made while the drawdown breaker is latched and less
\* than 24 h have passed since it latched returns false.
C8_BreakerBlocksFor24h ==
    (canTrade.called /\ canTrade.latchAge >= 0 /\ canTrade.latchAge < Day)
        => ~canTrade.ok

\* C9: a CanTrade call made more than 24 h after the drawdown breaker latched
\* returns true, clears the latch and resets the peak balance to the current
\* balance.
C9_BreakerAutoReset ==
    (canTrade.called /\ canTrade.latchAge > Day)
        => (canTrade.ok /\ ~isCircuitBroken /\ peakBalance = currentBalance)

\* the UTC midnight that follows the last balance update that left the daily
\* P&L at or below the limit
LossDayEnd == Truncate(lastLossAt) + Day

Resubscribed(c) ==
    /\ c > 1
    /\ conn = c
    /\ isConnected
    /\ c \notin closedConns
    /\ readerPc # "replay"
    /\ startPc # "send"

\* C11: on a connection made by a reconnect no (channel, symbols) pair gets
\* more than one subscribe frame, and once the reconnect has completed every
\* stored subscription has got exactly one, whatever the interleaving of
\* Subscribe calls with the reconnect.
C11_ResubscribedExactlyOnce ==
    \A c \in Conns : \A sub \in AllSubs :
        /\ c > 1 => sent[c][sub] <= 1
        /\ Resubscribed(c) /\ Stored(sub) => sent[c][sub] = 1

CloseReturns ==
    \/ \E k \in Closers : closerPc[k] = "lock" /\ closerPc'[k] = "done"
    \/ \E s \in Stoppers : stopperPc[s] = "ws_lock" /\ stopperPc'[s] = "done"

\* a step that ends a call of TradingBot.Stop
StopReturns ==
    \E s \in Stoppers : stopperPc[s] # "done" /\ stopperPc'[s] = "done"

NoLoopOn(p) == p \in {"off", "exit"}

IssuedInSecondFrom(t) == {u \in issued : t <= u /\ u < t + Second}

\* C13: whatever the demand, no more than RPS ticks are received from the
\* limiter in any window of one second.
C13_AtMostRPSPerSecond ==
    \A t \in 0..MaxClock : Cardinality(IssuedInSecondFrom(t)) <= RPS

\* what the claim lets a further attempt follow
AllowsRetry(a) ==
    \/ a.kind = "neterr"
    \/ a.kind = "http" /\ (a.status = 429 \/ a.status \in 500..599)

\* C14: a request is attempted at most three times; an attempt is followed by
\* another only if it met a network error, HTTP 429 or HTTP 5xx; any other
\* status outside 2xx ends the request at once with an error.
C14_RetryOnlyTransient ==
    /\ Len(tries) <= 3
    /\ \A i \in 1..Len(tries) :
          /\ i < Len(tries) => AllowsRetry(tries[i])
          /\ (/\ tries[i].kind = "http"
              /\ tries[i].status \notin 200..299
              /\ ~AllowsRetry(tries[i]))
             => i = Len(tries) /\ reqPc = "done" /\ reqResult = "http"

\* a 429 was retried and the 404 that followed ended the request
C14_Witness ==
    /\ Len(tries) = 2
    /\ tries[1].status = 429
    /\ tries[2].status = 404
    /\ reqPc = "done"
    /\ reqResult = "http"

\* C16: when the risk computation comes to zero contracts,
\* CalculatePositionSize returns 0 and executeTradeForSymbol places no order.
C16_ZeroSizePlacesNoOrder ==
    tradePc \in {"sized", "placed", "skipped"} /\ SizeWithinLimit(signal) = 0
        => size = 0 /\ tradeOrder = 0 /\ tradePc # "placed"

\* the symbol s has a candle at the timestamp this step processes
BarArrives(s) == lastBar'[s] # lastBar[s]

\* C19: a signal produced while processing timestamp t is not executed at t;
\* it is queued, and executed at the open of the next bar of its symbol that
\* is processed: a step executes exactly the orders queued before it whose
\* symbol has a bar, at that bar's open, and queues the signals it produces.
C19_NextBarFill ==
    [][\A s \in BacktestSymbols :
        /\ BarArrives(s) /\ pendingOrders[s] # NoPending
            => /\ lastFill'[s] = [SignalTime |-> pendingOrders[s].SignalTime,
                                  at |-> prevTimestamp',
                                  price |-> lastBar'[s].Open]
               /\ pendingOrders[s].SignalTime = lastBar[s].Time
               /\ pendingOrders[s].SignalTime < prevTimestamp'
        /\ ~(BarArrives(s) /\ pendingOrders[s] # NoPending)
            => lastFill'[s] = lastFill[s]
        /\ BarArrives(s) /\ lastSignal'[s] # "none"
            => /\ pendingOrders'[s].SignalTime = prevTimestamp'
               /\ pendingOrders'[s].Signal.Action = lastSignal'[s]
        /\ BarArrives(s) /\ lastSignal'[s] = "none" => pendingOrders'[s] = NoPending
        /\ ~BarArrives(s) => pendingOrders'[s] = pendingOrders[s]
    ]_vars

\* a signal of an earlier bar has been executed on a bar that came after a
\* timestamp without a candle of the symbol, and that bar's signal is queued
C19_Witness ==
    \E s \in BacktestSymbols :
        /\ lastFill[s] # NoFill
        /\ lastFill[s].at = prevTimestamp
        /\ processed = 3
        /\ lastFill[s].at - lastFill[s].SignalTime > 44640
        /\ pendingOrders[s] # NoPending
        /\ pendingOrders[s].SignalTime = prevTimestamp

\* a boundary of 00:00, 08:00 or 16:00 UTC lies after prev and at or before curr
BoundaryBetween(prev, curr) == curr \div 480 > prev \div 480

\* C20: between two consecutive timestamps funding is applied to the open
\* positions exactly once if a funding boundary lies after the previous
\* timestamp and at or before the current one, and not at all otherwise.
C20_FundingOncePerCrossing ==
    [][processed' = processed + 1 /\ prevTimestamp # NoTime
        => IF BoundaryBetween(prevTimestamp, prevTimestamp')
           THEN /\ fundingRuns' = fundingRuns + 1
                /\ \A s \in BacktestSymbols :
                    fundingPaid'[s] =
                        IF positions[s] = NoPosition THEN 0
                        ELSE (IF positions[s].Side = "buy" THEN 1 ELSE -1)
                             * positions[s].Size
                             * (IF BarArrives(s) THEN lastBar'[s].Close
                                ELSE positions[s].EntryPrice)
                             * GetFundingAtTime(fundingRates, prevTimestamp')
           ELSE /\ fundingRuns' = fundingRuns
                /\ \A s \in BacktestSymbols : fundingPaid'[s] = 0
    ]_vars

\* a position held from 00:05 through 08:00 sharp has paid funding once
C20_Witness ==
    /\ processed = 3
    /\ prevTimestamp = 480
    /\ fundingRuns = 1
    /\ \E s \in BacktestSymbols : fundingPaid[s] # 0

(***************************************************************************)
(* Claims about the books of the backtest (checked under SpecAccount).     *)
(***************************************************************************)
\* C21: a position is opened only if, at the moment of opening, equity minus
\* used margin is at least the required initial margin, notional / leverage.
C21_OpenedWithinMargin ==
    lastOpen # NoOpen
        => (lastOpen.equity - lastOpen.usedMargin) * BacktestLeverage
               >= lastOpen.Size * lastOpen.fillPrice * 100

\* a second position has been opened while the first one holds margin
C21_Witness ==
    /\ lastOpen # NoOpen
    /\ lastOpen.usedMargin > 0
    /\ \A s \in BookSymbols : book[s] # NoBookPosition

C22_NoAddingToPosition ==
    [][/\ venueSize > 0 => venueSize' <= venueSize
       /\ venueSize < 0 => venueSize' >= venueSize]_vars

(***************************************************************************)
(* Claims about the strategies.                                            *)
(***************************************************************************)
\* C26: with no recorded position for the symbol, funding arbitrage answers
\* sell when the annualized funding is above 0.15, buy when it is below -0.15
\* and none otherwise; with a recorded position it answers close when the
\* funding is within 0.05 of zero or the position is older than 24 h, and none
\* otherwise.
C26_FundingArbitrageSignal ==
    faSignal # NoFaSignal
        => faSignal.Action =
            IF faSignal.position = NoFundingPosition
            THEN (CASE faSignal.fundingAnn > 15 -> "sell"
                    [] faSignal.fundingAnn < -15 -> "buy"
                    [] OTHER -> "none")
            ELSE IF (faSignal.fundingAnn < 5 /\ faSignal.fundingAnn > -5)
                    \/ faSignal.at - faSignal.position.EntryTime > 24
            THEN "close"
            ELSE "none"

\* the strategy was asked about a position exactly 24 h old at a funding of
\* 0.10, and kept it
C26_Witness ==
    /\ faSignal # NoFaSignal
    /\ faSignal.position # NoFundingPosition
    /\ faSignal.at - faSignal.position.EntryTime = 24
    /\ faSignal.fundingAnn = 10
    /\ faSignal.Action = "none"

C28_NoDuplicateSubscription ==
    \A i, j \in 1..Len(subscriptions) :
        i # j => ~(/\ subscriptions[i].name = subscriptions[j].name
                   /\ subscriptions[i].symbols = subscriptions[j].symbols)

\* three calls were made, one of them with a pair that was stored already, and
\* two subscriptions of the same channel with different symbol lists are stored
C28_Witness ==
    /\ subCalls = 3
    /\ Len(subscriptions) = 2
    /\ subscriptions[1].name = subscriptions[2].name
    /\ Stored(subArg)

\* C29: a subscription requested while the client is not connected is stored,
\* and once the next Connect has succeeded and returned, its subscribe frame
\* has been sent on that connection.
C29_QueuedThenSent ==
    \A sub \in queued :
        /\ Stored(sub)
        /\ (dials > 1 \/ (dials = 1 /\ connectPc = "idle")) => sent[1][sub] >= 1

\* two subscriptions were requested before the first Connect, which has
\* succeeded and returned: both frames are out on the first connection
C29_Witness ==
    /\ Cardinality(queued) = 2
    /\ dials = 1
    /\ connectPc = "idle"
    /\ \A sub \in queued : sent[1][sub] = 1

(***************************************************************************)
(* Claims about the candle history (checked under SpecCandles).            *)
(***************************************************************************)
StrictlyIncreasing(cs) ==
    \A i \in 1..Len(cs) - 1 : cs[i].Time < cs[i + 1].Time

C24_ClosedWithinADay ==
    \A s \in BacktestSymbols :
        positions[s] # NoPosition
            => prevTimestamp - positions[s].EntryTime <= DayMinutes + 2 * 480

\* the entry itself: the order given on the first bar is filled on the second
C24_EnteredAfterFirstBar ==
    \E s \in BacktestSymbols :
        /\ processed = 2
        /\ lastFill[s] # NoFill
        /\ lastFill[s].SignalTime = 0
        /\ positions[s] # NoPosition
        /\ positions[s].Side = "sell"
        /\ positions[s].EntryTime = prevTimestamp

(***************************************************************************)
(* Claims about the equity curve of the backtest (checked under            *)
(* SpecAccount).                                                           *)
(***************************************************************************)
\* the drawdown of the point recorded last is (peak - equity) / peak for the
\* peak at that point, which is never negative
C31_DrawdownOfPeak ==
    /\ peakEquity >= InitialCapital
    /\ lastPoint # NoPoint =>
         /\ peakEquity >= lastPoint.Equity
         /\ lastPoint.Drawdown = DrawdownOf(peakEquity, lastPoint.Equity)
         /\ lastPoint.Drawdown >= 0

\* C31: along the equity curve the tracked peak never decreases, and the
\* drawdown of every point recorded is (peak - equity) / peak for the peak at
\* that point, so it is never negative.
C31_PeakAndDrawdown ==
    /\ []C31_DrawdownOfPeak
    /\ [][peakEquity' >= peakEquity]_vars

\* a point below an earlier peak has been recorded, and the peak has risen
\* above the initial capital
C31_Witness ==
    /\ lastPoint # NoPoint
    /\ lastPoint.Drawdown > 0
    /\ peakEquity > InitialCapital
\* the initial margin a symbol's position holds
MarginHeld(symbol) ==
    IF book[symbol] = NoBookPosition THEN 0 ELSE book[symbol].InitialMargin

\* C40: after any sequence of opens, closes and reversals the used margin is
\* the sum of the initial margins of the open positions, and is zero when no
\* position is open.
C40_UsedMarginIsHeldMargin ==
    /\ usedMargin = MarginHeld("SOLUSD") + MarginHeld("SOLINR")
    /\ (\A s \in BookSymbols : book[s] = NoBookPosition) => usedMargin = 0

\* a position has been reversed while the other symbol holds margin too
C40_Witness ==
    /\ lastTrade # NoTrade
    /\ \A s \in BookSymbols : book[s] # NoBookPosition
    /\ book[lastTrade.Symbol].Side # lastTrade.Side
    /\ usedMargin > 0

(***************************************************************************)
(* Claims about the aggressive limit price (checked under SpecPrice).      *)
(***************************************************************************)
Min(a, b) == IF a < b THEN a ELSE b
Max(a, b) == IF a > b THEN a ELSE b

\* best ask less 0.01 %
AskLessOffset == bba.BestAsk - bba.BestAsk \div 10000

\* C32 as stated: for a buy the aggressive limit price before tick rounding
\* is min(best_ask * (1 - 0.01%), best_bid).
C32_BuyAtMin ==
    (aggSide = "buy" /\ aggLimit # NoPrice)
        => aggLimit = Min(AskLessOffset, bba.BestBid)

\* C32, amended: for a buy the aggressive limit price before tick rounding is
\* max(best_ask * (1 - 0.01%), best_bid): the offset price, floored at the
\* best bid.
C32_BuyAtMax ==
    (aggSide = "buy" /\ aggLimit # NoPrice)
        => aggLimit = Max(AskLessOffset, bba.BestBid)

\* a buy has been priced on a book whose spread is wider than the offset
C32_Witness ==
    /\ aggSide = "buy"
    /\ aggLimit # NoPrice
    /\ bba.BestBid < AskLessOffset

(***************************************************************************)
(* Claims about the trading loop (checked under SpecLoop and               *)
(* SpecLoopFair).                                                          *)
(***************************************************************************)
\* the venue has rejected the order of the cycle, when it was placed or while
\* it was polled
OrderRejected == placeErr = "venue rejected" \/ sawRejected

\* C33, the order: once the venue has rejected the order of a cycle, no
\* further order is placed for that signal.
C33_NoOrderAfterRejection == OrderRejected => markets = <<>>

\* C33, the loop: after a rejection the cycle returns to the loop, which runs
\* its next cycle unless it is stopped.
C33_LoopGoesOn ==
    \A n \in 1..(MaxLoopCycles - 1) :
        (OrderRejected /\ loopCycles = n) ~> (loopCycles = n + 1 \/ loopPc = "returned")

\* C33: an order rejection ends only the current order: the cycle returns
\* without placing further orders for that signal, and the trading loop keeps
\* running and executes its next cycle.
C33_RejectionEndsOnlyTheOrder ==
    /\ []C33_NoOrderAfterRejection
    /\ C33_LoopGoesOn

(***************************************************************************)
(* Claims about the risk manager's lock (checked under SpecLock).          *)
(***************************************************************************)
\* a caller is inside CanTrade or UpdateBalance
InCall(p) == callPc[p] # "idle"

\* every call runs under the write lock
C34_UnderWriteLock == \A p \in RiskCallers : InCall(p) => rmu.writer = p

\* no CanTrade call reads a latch flag and a clock that different balance
\* updates wrote
C34_LatchWithItsClock ==
    \A p \in RiskCallers :
        (obs[p].done /\ obs[p].latch # "none") => obs[p].clockBy = obs[p].flagBy

\* a CanTrade call that found the drawdown latch older than a day has reset
\* it: the latch it saw is no longer set
C34_AutoResetKept ==
    \A p \in RiskCallers :
        (obs[p].done /\ obs[p].latch = "breaker" /\ obs[p].ok)
            => (~isCircuitBroken \/ written.brokenFlag # obs[p].flagBy)

\* C34: can_trade() and balance updates each run under the write lock, so no
\* caller observes a latch without its matching clock and an auto-reset
\* performed by can_trade() is not lost.
C34_AtomicLatchAndClock ==
    /\ C34_UnderWriteLock
    /\ C34_LatchWithItsClock
    /\ C34_AutoResetKept

(***************************************************************************)
(* Claims about closing a position (checked under SpecExec).               *)
(***************************************************************************)
\* C35: every order submitted while closing a position carries the
\* reduce-only flag: the limit order, which is the request of ClosePosition
\* itself, and any fallback market order alike.
C35_CloseOrdersReduceOnly ==
    req.ReduceOnly => \A i \in 1..Len(markets) : markets[i].ReduceOnly

(***************************************************************************)
(* Claims about the trading cycle and the risk manager (checked under      *)
(* SpecCycle).                                                             *)
(***************************************************************************)
\* C36: no entry order is submitted while a daily-loss or drawdown latch is
\* active in the risk manager's state as of its most recent balance update,
\* the update of the same trading cycle included.
C36_NoEntryWhileLatched == lastEntry.submitted => ~lastEntry.latchActive

(***************************************************************************)
(* Claims about the retries of a request (checked under SpecRequest, with  *)
(* the traced request the POST /orders of PlaceOrder).                     *)
(***************************************************************************)
\* the orders the venue has created for the call: one for every attempt that
\* it carried out, as the request carries no client order id
OrdersCreated == Cardinality({i \in 1..Len(tries) : tries[i].acted})

\* C37: a single place-order call creates at most one order at the venue,
\* even when the request is re-sent after a network error or a 5xx response
\* whose first attempt the venue had already accepted.
C37_AtMostOneOrder == OrdersCreated <= 1

(***************************************************************************)
(* Claims about the transmissions of the client (checked under SpecSends). *)
(***************************************************************************)
\* the requests sent in the second that starts at time t: the first attempts,
\* one for each tick received, and the attempts re-sent
SentInSecondFrom(t) ==
    Cardinality(IssuedInSecondFrom(t))
        + Cardinality({x \in resent : t <= x[2] /\ x[2] < t + Second})

\* every attempt sent has received a tick of its own
C39_TokenForEverySend == resent = {}

\* no more than RPS requests are sent in any window of one second
C39_SendsWithinRPS == \A t \in 0..MaxClock : SentInSecondFrom(t) <= RPS

\* C39: every HTTP transmission, each retry attempt included, waits for its
\* own rate-limit token, so the requests sent in any window of one second
\* never exceed RPS.
C39_EverySendRateLimited ==
    /\ C39_TokenForEverySend
    /\ C39_SendsWithinRPS

(***************************************************************************)
(* Claims about a reconnect that meets Close (checked under SpecStream).   *)
(***************************************************************************)
\* Close has been called: stopChan is closed
CloseCalled == stopChanCloses > 0

\* the reconnect loop of readMessages is in progress
ReconnectInProgress == readerPc \in {"rc_select", "rc_connect"}

\* C38: once Close has been called on the stream client, the client never
\* becomes connected again: a reconnect loop that is in progress stops without
\* opening a new connection or marking the client connected.
C38_NoConnectAfterClose ==
    [][(CloseCalled /\ ReconnectInProgress)
          => /\ dials' = dials
             /\ conn' = conn \/ conn' = 0
             /\ isConnected' => isConnected]_vars

====
